---- MODULE Spec2Model ----
(***************************************************************************)
(* jellyvr: a gateway between a Jellyfin catalog and the HereSphere player *)
(* protocol.  The model covers the per-user library cache (index.rs), the  *)
(* session records and the playback-position extrapolation loop (main.rs). *)
(*                                                                         *)
(* Every `.await` of the source is one atomic step of the handler that     *)
(* executes it: the embedded database serves one request at a time, so a   *)
(* single `db.query(...)`, `db.select(...)` or `db.update(...)` call is    *)
(* atomic, while two calls of the same handler are not.                    *)
(*                                                                         *)
(* Time is the wall clock `now` in milliseconds.                           *)
(***************************************************************************)
EXTENDS Integers, Sequences, FiniteSets, TLC

\* ---------------------------------------------------------------- bounds

\* How many times the wall clock may advance in one behaviour of the cache
\* handlers.
MaxAdvances == 3

\* How many times the wall clock may advance in one behaviour of the
\* playback handlers.
MaxPlayAdvances == 2

\* How many events the client sends in one behaviour.
MaxEvents == 1

\* How many operations on sessions take part in one behaviour.
MaxOps == 3

\* ------------------------------------------------------- program constants

\* main.rs:681  Jellyfin ticks (100 ns) per millisecond
TicksPerMs == 10000

\* main.rs:60  cache_lifetime: Duration::from_secs(60 * 2)
CacheLifetimeSecs == 120

cache_lifetime == CacheLifetimeSecs * 1000

\* gen_short_password(6)
PasswordLen == 6

\* ----------------------------------------------------------------- inputs

\* Jellyfin user ids; the order of the integers stands for the order of the
\* id strings inside the database's record ids.
Users == {1, 2}

\* Catalog item ids.
Items == {1, 2}

\* Concurrent request handlers (axum runs one task per inbound request).
Handlers == {1, 2}

\* The handler that serves the requests of a sequential client.
SeqHandlers == {1}

\* Wall-clock increments (ms) between two steps of the cache handlers.
CacheTimeSteps == {1000, 119000}

\* Ids of the records of table `session`, in the order SELECT returns them.
Sids == {1, 2}

\* Wall-clock increments (ms) between two steps of the playback handlers.
PlayTimeSteps == {5, 30}

\* Option<T> and Result<T, AppError>
None == [some |-> FALSE]

Some(v) == [some |-> TRUE, val |-> v]

Ok(v) == [ok |-> TRUE, val |-> v]

Err(e) == [ok |-> FALSE, err |-> e]

\* A BaseItemDto, reduced to the fields the cache reads.
BaseItem(i, virt) == [id |-> i, virtual |-> virt]

\* What the upstream catalog may hold (SortBy=SortName, ascending).
CatalogInputs ==
    { <<BaseItem(1, FALSE), BaseItem(2, TRUE)>>,
      <<BaseItem(2, FALSE)>> }

VARIABLES
    now,        \* chrono::Utc::now(), ms
    nAdv,       \* number of clock advances so far
    catalog,    \* the items the upstream server holds
    index,      \* table `index`:  user -> Option<HeresphereIndex>
    videos,     \* table `videos`: <<user, item>> -> Option<VideoCache>
    pc,         \* handler -> position in its request
    usr,        \* handler -> user_id argument
    vid,        \* handler -> video_id argument (single-item requests)
    arm,        \* handler -> the arm of `match session` prime_data_maybe took last
    idx,        \* handler -> the HeresphereIndex built by prime_data
    vids,       \* handler -> the Vec<VideoCache> built by prime_data
    ret,        \* handler -> result of the latest call that has returned
    sessions,   \* table `session`: id -> Option<Session>
    tpc,        \* background task: position in its loop / progress_update_routine
    tsnap,      \* background task: `sessions`, the Vec<SessionState> it selected
    ti,         \* background task: index in tsnap of the session at hand
    tpos,       \* background task: new_position
    tnew,       \* background task: new_session_state
    reports,    \* playback_progress calls issued by the current routine run
    tres,       \* background task: the Result the routine returned last
    epc,        \* event handler: position in heresphere_event
    ereq,       \* event handler: the request (sid, vid and the Event body)
    enew,       \* event handler: new_session_state
    eret,       \* event handler: result of the latest call that has returned
    nEv,        \* number of events received so far
    quick,      \* upstream: Quick Connect secret -> "unused", "waiting" or "approved"
    hpc,        \* bootstrap handler -> position in root / handle_session
    hcookie,    \* bootstrap handler -> the jellyvr_session cookie of the request
    hstate,     \* bootstrap handler -> existing_state
    hnew,       \* bootstrap handler -> the Session::User it is about to write
    hret,       \* bootstrap handler -> result of handle_session, once returned
    vpc,        \* video handler: position in heresphere_video
    vreq,       \* video handler: the request (credentials, vid, needs_media_source)
    vst,        \* video handler: session_state of the extractor, and video
    vnew,       \* video handler: new_session_state
    vret        \* video handler: result of the latest request that has returned

cacheVars == <<catalog, index, videos, pc, usr, vid, arm, idx, vids, ret>>

clockVars == <<now, nAdv>>

tickVars == <<tpc, tsnap, ti, tpos, tnew, reports, tres>>

eventVars == <<epc, ereq, enew, eret, nEv>>

bootVars == <<quick, hpc, hcookie, hstate, hnew, hret>>

reqVars == <<vpc, vreq, vst, vnew, vret>>

playVars == <<sessions, tpc, tsnap, ti, tpos, tnew, reports, tres, epc, ereq, enew, eret, nEv>>

vars == <<now, nAdv, catalog, index, videos, pc, usr, vid, arm, idx, vids, ret,
          sessions, tpc, tsnap, ti, tpos, tnew, reports, tres, epc, ereq, enew, eret, nEv,
          quick, hpc, hcookie, hstate, hnew, hret, vpc, vreq, vst, vnew, vret>>

\* Concurrent GET / requests.
Roots == {1, 2}

\* Quick Connect secrets the upstream server may issue.
Secrets == {1, 2}

\* ------------------------------------------------- index.rs: pure helpers

RECURSIVE FilterNonVirtual(_)
\* items.iter().filter_map(|item| if Virtual { None } else { Some(..) })
FilterNonVirtual(items) ==
    IF items = <<>> THEN <<>>
    ELSE IF Head(items).virtual THEN FilterNonVirtual(Tail(items))
         ELSE <<Head(items)>> \o FilterNonVirtual(Tail(items))

\* "{host}/heresphere/{id}"
Link(i) == [link |-> i]

baseitems_to_library(name, items) ==
    LET kept == FilterNonVirtual(items)
    IN [name |-> name, list |-> [k \in DOMAIN kept |-> Link(kept[k].id)]]

baseitems_to_scan(items) ==
    LET kept == FilterNonVirtual(items)
    IN [scan_data |-> [k \in DOMAIN kept |-> [link |-> Link(kept[k].id)]]]

\* item.run_time_ticks.unwrap_or_default(): item 1 runs 600 ms, item 2 has
\* no run time.
RunTimeTicks(i) == IF i = 1 THEN 600 * TicksPerMs ELSE 0

VideoCache(u, i, t) ==
    [id |-> <<u, i>>,
     data |-> [access |-> 1, title |-> i, duration |-> RunTimeTicks(i) \div TicksPerMs],
     last_updated |-> t]

baseitems_to_video_cache(u, items, t) ==
    LET kept == FilterNonVirtual(items)
    IN [k \in DOMAIN kept |-> VideoCache(u, kept[k].id, t)]

HeresphereIndex(u, items, t) ==
    [id |-> u,
     libraries |-> <<baseitems_to_library("Library", items)>>,
     scan |-> Some(baseitems_to_scan(items)),
     last_updated |-> t]

\* The comparison turned around: fresh entries count as too old.
IsTooOld_Reversed(state, t) == state.last_updated > t - cache_lifetime

\* An entry whose age equals the lifetime counts as too old.
IsTooOld_AtLifetime(state, t) == state.last_updated <= t - cache_lifetime

\* The lifetime is left out of the comparison.
IsTooOld_NoLifetime(state, t) == state.last_updated < t

\* state.last_updated < chrono::Utc::now() - app.config.cache_lifetime
IsTooOld(state, t) == state.last_updated < t - cache_lifetime

\* "DELETE type::thing('index', $user); INSERT INTO index $data"
ReplaceIndex(tbl, u, data) == [tbl EXCEPT ![u] = Some(data)]

\* "DELETE videos:[<string> $user, '']..": a record range with no upper end,
\* so it removes every record whose id is at or after [user, ''].
DeleteVideoRange(tbl, u) ==
    [k \in DOMAIN tbl |-> IF k[1] >= u THEN None ELSE tbl[k]]

RECURSIVE InsertVideos(_, _)
\* "INSERT INTO videos $data"
InsertVideos(tbl, data) ==
    IF data = <<>> THEN tbl
    ELSE InsertVideos([tbl EXCEPT ![Head(data).id] = Some(Head(data))], Tail(data))

ReplaceVideos(tbl, u, data) == InsertVideos(DeleteVideoRange(tbl, u), data)

\* ----------------------------------------------------------------- Init

\* The background task and the event handler before their first step.
PlayIdle ==
    /\ tpc = "sleep"
    /\ tsnap = <<>>
    /\ ti = 1
    /\ tpos = 0
    /\ tnew = None
    /\ reports = <<>>
    /\ tres = None
    /\ epc = "idle"
    /\ ereq = None
    /\ enew = None
    /\ eret = None
    /\ nEv = 0
    /\ hpc = [r \in Roots |-> "idle"]
    /\ hcookie = [r \in Roots |-> None]
    /\ hstate = [r \in Roots |-> None]
    /\ hnew = [r \in Roots |-> None]
    /\ hret = [r \in Roots |-> None]
    /\ vpc = "idle"
    /\ vreq = None
    /\ vst = None
    /\ vnew = None
    /\ vret = None

\* A fresh database.
Init ==
    /\ now = 0
    /\ nAdv = 0
    /\ catalog \in CatalogInputs
    /\ sessions = [s \in Sids |-> None]
    /\ quick = [q \in Secrets |-> "unused"]
    /\ PlayIdle
    /\ index = [u \in Users |-> None]
    /\ videos = [k \in Users \X Items |-> None]
    /\ pc = [h \in Handlers |-> "idle"]
    /\ usr = [h \in Handlers |-> 1]
    /\ vid = [h \in Handlers |-> 1]
    /\ arm = [h \in Handlers |-> "-"]
    /\ idx = [h \in Handlers |-> None]
    /\ vids = [h \in Handlers |-> <<>>]
    /\ ret = [h \in Handlers |-> None]

\* ------------------------------------------------------------ environment

\* Wall-clock time passes.
AdvanceCache ==
    /\ nAdv < MaxAdvances
    /\ \E d \in CacheTimeSteps : now' = now + d
    /\ nAdv' = nAdv + 1
    /\ UNCHANGED cacheVars
    /\ UNCHANGED bootVars
    /\ UNCHANGED playVars
    /\ UNCHANGED reqVars

\* The upstream library changes (items added, removed or made virtual).
UpstreamChange ==
    /\ \E c \in CatalogInputs : c # catalog /\ catalog' = c
    /\ UNCHANGED <<index, videos, pc, usr, vid, arm, idx, vids, ret>>
    /\ UNCHANGED clockVars
    /\ UNCHANGED playVars
    /\ UNCHANGED bootVars
    /\ UNCHANGED reqVars

\* ------------------------------------- index.rs: prime_data_maybe / prime_data

Idle(h) == pc[h] \in {"idle", "done"}

\* A request task starts: heresphere_libraries / heresphere_scan enter
\* prime_data_maybe(user_id).
Call(h, u) ==
    /\ Idle(h)
    /\ pc' = [pc EXCEPT ![h] = "select"]
    /\ usr' = [usr EXCEPT ![h] = u]
    /\ UNCHANGED <<catalog, index, videos, vid, arm, idx, vids, ret>>
    /\ UNCHANGED clockVars
    /\ UNCHANGED playVars
    /\ UNCHANGED bootVars
    /\ UNCHANGED reqVars

\* A request served by a task of its own, concurrently with the others.
Arrive(h, u) ==
    /\ pc[h] = "idle"
    /\ Call(h, u)

\* The same, for requests that come one after the other: the next one
\* starts when the previous one has returned.
SeqCall(h, u) ==
    /\ h \in SeqHandlers
    /\ Call(h, u)

\* The function returns: its locals are dropped.
Return(h, r) ==
    /\ pc' = [pc EXCEPT ![h] = "done"]
    /\ ret' = [ret EXCEPT ![h] = Some(r)]
    /\ idx' = [idx EXCEPT ![h] = None]
    /\ vids' = [vids EXCEPT ![h] = <<>>]

\* let session = app.db.select(("index", user_id)).await?;  match session {..}
PdmSelect(h) ==
    /\ pc[h] = "select"
    /\ \/ /\ index[usr[h]].some
          /\ ~IsTooOld(index[usr[h]].val, now)
          /\ arm' = [arm EXCEPT ![h] = "Fresh"]
          /\ Return(h, Ok(index[usr[h]].val))
       \/ /\ index[usr[h]].some
          /\ IsTooOld(index[usr[h]].val, now)
          /\ arm' = [arm EXCEPT ![h] = "TooOld"]
          /\ pc' = [pc EXCEPT ![h] = "items"]
          /\ UNCHANGED <<ret, idx, vids>>
       \/ /\ ~index[usr[h]].some
          /\ arm' = [arm EXCEPT ![h] = "None"]
          /\ pc' = [pc EXCEPT ![h] = "items"]
          /\ UNCHANGED <<ret, idx, vids>>
       \/ /\ Return(h, Err("select"))
          /\ arm' = arm
    /\ UNCHANGED <<catalog, index, videos, usr, vid>>
    /\ UNCHANGED clockVars
    /\ UNCHANGED playVars
    /\ UNCHANGED bootVars
    /\ UNCHANGED reqVars

\* The stale entry dropped when the fetch of its replacement fails.
PdItems_DropsEntry(h) ==
    /\ pc[h] = "items"
    /\ \/ /\ idx' = [idx EXCEPT ![h] = Some(HeresphereIndex(usr[h], catalog, now))]
          /\ vids' = [vids EXCEPT ![h] = baseitems_to_video_cache(usr[h], catalog, now)]
          /\ pc' = [pc EXCEPT ![h] = "index"]
          /\ UNCHANGED <<ret, index>>
       \/ /\ Return(h, Err("items"))
          /\ index' = [index EXCEPT ![usr[h]] = None]
    /\ UNCHANGED <<catalog, videos, usr, vid, arm>>
    /\ UNCHANGED clockVars
    /\ UNCHANGED playVars
    /\ UNCHANGED bootVars
    /\ UNCHANGED reqVars

\* let items = user.items().await?.items.ok_or(..)?;  then the index and the
\* video records are built from the items, stamped chrono::Utc::now().
PdItems(h) ==
    /\ pc[h] = "items"
    /\ \/ /\ idx' = [idx EXCEPT ![h] = Some(HeresphereIndex(usr[h], catalog, now))]
          /\ vids' = [vids EXCEPT ![h] = baseitems_to_video_cache(usr[h], catalog, now)]
          /\ pc' = [pc EXCEPT ![h] = "index"]
          /\ ret' = ret
       \/ Return(h, Err("items"))
    /\ UNCHANGED <<catalog, index, videos, usr, vid, arm>>
    /\ UNCHANGED clockVars
    /\ UNCHANGED playVars
    /\ UNCHANGED bootVars
    /\ UNCHANGED reqVars

\* app.db.query("DELETE type::thing('index', $user); INSERT INTO index $data")
PdWriteIndex(h) ==
    /\ pc[h] = "index"
    /\ \/ /\ index' = ReplaceIndex(index, usr[h], idx[h].val)
          /\ pc' = [pc EXCEPT ![h] = "videos"]
          /\ UNCHANGED <<ret, idx, vids>>
       \/ /\ Return(h, Err("Inserting cache"))
          /\ index' = index
    /\ UNCHANGED <<catalog, videos, usr, vid, arm>>
    /\ UNCHANGED clockVars
    /\ UNCHANGED playVars
    /\ UNCHANGED bootVars
    /\ UNCHANGED reqVars

\* app.db.query("DELETE videos:[<string> $user, '']..; INSERT INTO videos $data")
\* and then Ok(index)
PdWriteVideos(h) ==
    /\ pc[h] = "videos"
    /\ \/ /\ videos' = ReplaceVideos(videos, usr[h], vids[h])
          /\ Return(h, Ok(idx[h].val))
       \/ /\ Return(h, Err("Inserting videos"))
          /\ videos' = videos
    /\ UNCHANGED <<catalog, index, usr, vid, arm>>
    /\ UNCHANGED clockVars
    /\ UNCHANGED playVars
    /\ UNCHANGED bootVars
    /\ UNCHANGED reqVars

\* --------------------------------------------------- index.rs: get_video

\* A request task starts: heresphere_video calls get_video(db, user_id, vid).
CallVideo(h, u, i) ==
    /\ Idle(h)
    /\ pc' = [pc EXCEPT ![h] = "get_video"]
    /\ usr' = [usr EXCEPT ![h] = u]
    /\ vid' = [vid EXCEPT ![h] = i]
    /\ UNCHANGED <<catalog, index, videos, arm, idx, vids, ret>>
    /\ UNCHANGED clockVars
    /\ UNCHANGED playVars
    /\ UNCHANGED bootVars
    /\ UNCHANGED reqVars

ArriveVideo(h, u, i) ==
    /\ pc[h] = "idle"
    /\ CallVideo(h, u, i)

\* A lookup that refreshes the library when it misses.
get_video_Refreshing(h) ==
    /\ pc[h] = "get_video"
    /\ \/ /\ videos[<<usr[h], vid[h]>>].some
          /\ Return(h, Ok(videos[<<usr[h], vid[h]>>].val))
       \/ /\ ~videos[<<usr[h], vid[h]>>].some
          /\ pc' = [pc EXCEPT ![h] = "select"]
          /\ UNCHANGED <<ret, idx, vids>>
    /\ UNCHANGED <<catalog, index, videos, usr, vid, arm>>
    /\ UNCHANGED clockVars
    /\ UNCHANGED playVars
    /\ UNCHANGED bootVars
    /\ UNCHANGED reqVars

\* "SELECT * FROM type::thing('videos', [<string> $user, $video])"
get_video(h) ==
    /\ pc[h] = "get_video"
    /\ \/ /\ videos[<<usr[h], vid[h]>>].some
          /\ Return(h, Ok(videos[<<usr[h], vid[h]>>].val))
       \/ /\ ~videos[<<usr[h], vid[h]>>].some
          /\ Return(h, Err("No video found"))
       \/ Return(h, Err("query"))
    /\ UNCHANGED <<catalog, index, videos, usr, vid, arm>>
    /\ UNCHANGED clockVars
    /\ UNCHANGED playVars
    /\ UNCHANGED bootVars
    /\ UNCHANGED reqVars

\* ------------------------------------------------ main.rs: session records

\* An f64 playback speed, as a fraction.
Speed(n, d) == [num |-> n, den |-> d]

\* struct Playback
Playback(psid, v, dur, pos, spd, started, upd, paused) ==
    [play_session_id |-> psid, video_id |-> v, duration |-> dur,
     position_estimate |-> pos, speed |-> spd, started_at |-> started,
     last_update |-> upd, is_paused |-> paused]

\* Session::QuickConnect(QuickConnect { secret, code })
QuickConnect(s) == [kind |-> "QuickConnect", secret |-> s, code |-> s]

\* 'a'..='z'
Lowercase ==
    <<"a", "b", "c", "d", "e", "f", "g", "h", "i", "j", "k", "l", "m",
      "n", "o", "p", "q", "r", "s", "t", "u", "v", "w", "x", "y", "z">>

\* What rand::thread_rng() yields in the calls of one gen_short_password:
\* the places in 'a'..='z' that gen_range picks.
RngInputs == <<<<1, 2, 3, 4, 5, 6>>, <<26, 26, 1, 13, 14, 1>>>>

\* The loop runs once more than asked: for _ in 0..=arg.
RECURSIVE gen_short_password_OneMore(_, _)
gen_short_password_OneMore(arg, rng) ==
    IF arg < 0 THEN <<>>
    ELSE <<Lowercase[rng[1]]>> \o gen_short_password_OneMore(arg - 1, rng)

\* for _ in 0..arg { password.push(rng.gen_range('a'..='z')) }
RECURSIVE gen_short_password(_, _)
gen_short_password(arg, rng) ==
    IF arg <= 0 THEN <<>>
    ELSE <<Lowercase[Head(rng)]>> \o gen_short_password(arg - 1, Tail(rng))

\* Session::User(User { .. }), with the password generated at its promotion.
User(u, pb) ==
    [kind |-> "User", user_id |-> u, token |-> u, username |-> u,
     jellyvr_password |-> gen_short_password(PasswordLen, RngInputs[u]),
     last_known_playback |-> pb]

\* struct SessionState
SessionState(s, sess) == [id |-> s, session |-> sess]

\* The speeds a Play or Pause event may carry: 1.0, 0.5 and -1.0.
SpeedInputs == {Speed(1, 1), Speed(1, 2), Speed(-1, 1)}

\* Playbacks a database may hold when the process starts: item 1 with a
\* duration of 600 ms (or unknown, 0) at position 590 ms, playing at one of
\* the speeds, or paused.
PlaybackInputs ==
    { Playback(1, 1, dur, 590 * TicksPerMs, spd, 0, 0, FALSE) :
        dur \in {600 * TicksPerMs, 0}, spd \in SpeedInputs }
    \cup { Playback(1, 1, 600 * TicksPerMs, 590 * TicksPerMs, Speed(1, 1), 0, 0, TRUE) }

\* Session records a database may hold when the process starts.
SessionInputs(s) ==
    {QuickConnect(s), User(s, None)} \cup {User(s, Some(pb)) : pb \in PlaybackInputs}

\* The same, for the behaviours in which the client sends events.
PlaySessionInputs(s) ==
    {QuickConnect(s), User(s, None),
     User(s, Some(Playback(1, 1, 600 * TicksPerMs, 590 * TicksPerMs, Speed(1, 1), 0, 0, FALSE)))}

\* The bodies of the Play and Pause events a client sends (time in ms).
PlayPauseInputs ==
    { [event |-> "Play", time |-> 5, speed |-> Speed(1, 2)],
      [event |-> "Play", time |-> 80, speed |-> Speed(-1, 1)],
      [event |-> "Pause", time |-> 80, speed |-> Speed(1, 1)] }

EventInputs ==
    PlayPauseInputs \cup {[event |-> e, time |-> 0, speed |-> Speed(1, 1)] : e \in {"Open", "Close"}}

\* f64::round: to the nearest integer, halfway cases away from zero; n / d
\* with d > 0.
Round(n, d) ==
    IF n >= 0 THEN (2 * n + d) \div (2 * d)
    ELSE -((2 * (-n) + d) \div (2 * d))

\* (ms as f64 * playback.speed).round() as i64
ScaleBySpeed(ms, spd) == Round(ms * spd.num, spd.den)

\* The elapsed time added without the speed.
NewPosition_IgnoresSpeed(pb, t) ==
    pb.position_estimate + (t - pb.last_update) * TicksPerMs

\* playback.position_estimate
\*   + (now.signed_duration_since(last_update).num_milliseconds() as f64
\*      * playback.speed).round() as i64 * 10000
NewPosition(pb, t) ==
    pb.position_estimate + ScaleBySpeed(t - pb.last_update, pb.speed) * TicksPerMs

\* The comparison made whatever the duration, also when it is unknown.
Overrun_AnyDuration(pb, pos) == pos > pb.duration

\* The comparison made on the stored position instead of the predicted one.
Overrun_StoredPosition(pb, pos) == pb.duration > 0 /\ pb.position_estimate > pb.duration

\* playback.duration > 0 && new_position > playback.duration
Overrun(pb, pos) == pb.duration > 0 /\ pos > pb.duration

\* (event.time * 10000.0) as i64
EventPosition(ev) == ev.time * TicksPerMs

\* "SELECT * FROM session": the records of the table, in id order.
RECURSIVE SelectSessions(_, _)
SelectSessions(tbl, from) ==
    IF from \notin DOMAIN tbl THEN <<>>
    ELSE (IF tbl[from].some THEN <<SessionState(from, tbl[from].val)>> ELSE <<>>)
         \o SelectSessions(tbl, from + 1)

\* update_session: self.db.update(session.id).content(&session)
UpdateSession(tbl, st) == [tbl EXCEPT ![st.id] = Some(st.session)]

\* The process starts on a database left by its earlier runs, with the
\* library cache empty.
StartOn(tbl) ==
    /\ sessions = tbl
    /\ quick = [q \in Secrets |->
                  IF \E s \in Sids : tbl[s] = Some(QuickConnect(q)) THEN "waiting" ELSE "unused"]
    /\ now = 0
    /\ nAdv = 0
    /\ catalog = <<BaseItem(1, FALSE), BaseItem(2, TRUE)>>
    /\ PlayIdle
    /\ index = [u \in Users |-> None]
    /\ videos = [k \in Users \X Items |-> None]
    /\ pc = [h \in Handlers |-> "idle"]
    /\ usr = [h \in Handlers |-> 1]
    /\ vid = [h \in Handlers |-> 1]
    /\ arm = [h \in Handlers |-> "-"]
    /\ idx = [h \in Handlers |-> None]
    /\ vids = [h \in Handlers |-> <<>>]
    /\ ret = [h \in Handlers |-> None]

TickInit ==
    \E tbl \in [Sids -> {Some(x) : x \in UNION {SessionInputs(s) : s \in Sids}}] :
        /\ \A s \in Sids : tbl[s].val \in SessionInputs(s)
        /\ StartOn(tbl)

PlayInit ==
    \E tbl \in [Sids -> {Some(x) : x \in UNION {PlaySessionInputs(s) : s \in Sids}}] :
        /\ \A s \in Sids : tbl[s].val \in PlaySessionInputs(s)
        /\ StartOn(tbl)

\* Wall-clock time passes.
AdvancePlay ==
    /\ nAdv < MaxPlayAdvances
    /\ \E d \in PlayTimeSteps : now' = now + d
    /\ nAdv' = nAdv + 1
    /\ UNCHANGED cacheVars
    /\ UNCHANGED bootVars
    /\ UNCHANGED playVars
    /\ UNCHANGED reqVars

\* ------------------------------------ main.rs: the background task (tick)

\* The session the routine's for loop is at.
Current == tsnap[ti]

\* Every user's playback is tracked, paused or not.
Tracked_IncludesPaused(st) ==
    /\ st.session.kind = "User"
    /\ st.session.last_known_playback.some

\* The loop body acts on this session: Session::User with Some(playback)
\* that is not paused.
Tracked(st) ==
    /\ st.session.kind = "User"
    /\ st.session.last_known_playback.some
    /\ ~st.session.last_known_playback.val.is_paused

\* The position moved to the duration when the playback is stopped.
StoppedState_Clamps(st, t) ==
    SessionState(st.id,
        [st.session EXCEPT !.last_known_playback =
            Some([@.val EXCEPT !.is_paused = TRUE, !.last_update = t,
                               !.position_estimate =
                                   st.session.last_known_playback.val.duration])])

\* SessionState { id, session: Session::User(User { last_known_playback:
\*     Some(Playback { is_paused: true, last_update: now, ..playback }), ..user }) }
StoppedState(st, t) ==
    SessionState(st.id,
        [st.session EXCEPT !.last_known_playback =
            Some([@.val EXCEPT !.is_paused = TRUE, !.last_update = t])])

\* SessionState { id, session: Session::User(User { last_known_playback:
\*     Some(Playback { position_estimate: new_position, last_update: now,
\*                     ..playback }), ..user }) }
AdvancedState(st, pos, t) ==
    SessionState(st.id,
        [st.session EXCEPT !.last_known_playback =
            Some([@.val EXCEPT !.position_estimate = pos, !.last_update = t])])

\* The arguments of jellyfin_user.playback_progress(..)
ProgressReport(st, pos) ==
    LET pb == st.session.last_known_playback.val
    IN [sid |-> st.id, user_id |-> st.session.user_id,
        video_id |-> pb.video_id, play_session_id |-> pb.play_session_id,
        position |-> pos, is_paused |-> pb.is_paused, started_at |-> pb.started_at]

\* interval.tick().await returns: the routine is called.
TickFire ==
    /\ tpc = "sleep"
    /\ tpc' = "select"
    /\ UNCHANGED <<sessions, tsnap, ti, tpos, tnew, reports, tres>>
    /\ UNCHANGED eventVars
    /\ UNCHANGED cacheVars
    /\ UNCHANGED bootVars
    /\ UNCHANGED clockVars
    /\ UNCHANGED reqVars

\* The routine returns to the loop of main, which logs an Err and goes to
\* the next interval.tick(); the routine's locals are dropped.
TickReturn ==
    /\ tpc' = "sleep"
    /\ tsnap' = <<>>
    /\ ti' = 1
    /\ tpos' = 0
    /\ tnew' = None
    /\ reports' = <<>>

\* The loop of main takes what the routine returned in place of `?`, which
\* would end the task on the first Err.
TickResult_Propagates(r) ==
    /\ tpc' = IF r.ok THEN "sleep" ELSE "exit"
    /\ tsnap' = <<>>
    /\ ti' = 1
    /\ tpos' = 0
    /\ tnew' = None
    /\ reports' = <<>>
    /\ tres' = Some(r)

\* if let Err(e) = progress_update_routine(&app_state_local).await {
\*     tracing::error!(..) }: the loop of main takes what the routine returned.
TickResult(r) ==
    /\ TickReturn
    /\ tres' = Some(r)

\* let sessions = app.db.query("SELECT * FROM session").await?.check()?.take(0)?;
TickSelect ==
    /\ tpc = "select"
    /\ \/ /\ tsnap' = SelectSessions(sessions, 1)
          /\ tpc' = "loop"
          /\ UNCHANGED <<ti, tpos, tnew, reports, tres>>
       \/ TickResult(Err("query"))
    /\ UNCHANGED sessions
    /\ UNCHANGED eventVars
    /\ UNCHANGED cacheVars
    /\ UNCHANGED bootVars
    /\ UNCHANGED clockVars
    /\ UNCHANGED reqVars

\* for session in sessions { match session.session { .. } }, up to the next
\* .await of the body; Ok(()) after the last session.
TickLoop ==
    /\ tpc = "loop"
    /\ IF ti > Len(tsnap)
       THEN TickResult(Ok("()"))
       ELSE IF ~Tracked(Current)
       THEN /\ ti' = ti + 1
            /\ UNCHANGED <<tpc, tsnap, tpos, tnew, reports, tres>>
       ELSE LET pb == Current.session.last_known_playback.val
                new_position == NewPosition(pb, now)
            IN IF Overrun(pb, new_position)
               THEN /\ tnew' = Some(StoppedState(Current, now))
                    /\ tpc' = "stop"
                    /\ UNCHANGED <<tsnap, ti, tpos, reports, tres>>
               ELSE /\ tpos' = new_position
                    /\ tpc' = "report"
                    /\ UNCHANGED <<tsnap, ti, tnew, reports, tres>>
    /\ UNCHANGED sessions
    /\ UNCHANGED eventVars
    /\ UNCHANGED cacheVars
    /\ UNCHANGED bootVars
    /\ UNCHANGED clockVars
    /\ UNCHANGED reqVars

\* app.update_session(new_session_state).await?; continue;
TickStop ==
    /\ tpc = "stop"
    /\ \/ /\ sessions' = UpdateSession(sessions, tnew.val)
          /\ ti' = ti + 1
          /\ tpc' = "loop"
          /\ tnew' = None
          /\ UNCHANGED <<tsnap, tpos, reports, tres>>
       \/ /\ TickResult(Err("update_session"))
          /\ sessions' = sessions
    /\ UNCHANGED eventVars
    /\ UNCHANGED cacheVars
    /\ UNCHANGED bootVars
    /\ UNCHANGED clockVars
    /\ UNCHANGED reqVars

\* The record written before the report is known to have succeeded.
TickReport_PersistsFirst ==
    /\ tpc = "report"
    /\ \/ /\ reports' = Append(reports, ProgressReport(Current, tpos))
          /\ tnew' = Some(AdvancedState(Current, tpos, now))
          /\ tpc' = "update"
          /\ UNCHANGED <<sessions, tsnap, ti, tpos, tres>>
       \/ /\ TickResult(Err("playback_progress"))
          /\ sessions' = UpdateSession(sessions, AdvancedState(Current, tpos, now))
    /\ UNCHANGED eventVars
    /\ UNCHANGED cacheVars
    /\ UNCHANGED bootVars
    /\ UNCHANGED clockVars
    /\ UNCHANGED reqVars

\* jellyfin_user.playback_progress(video_id, play_session_id, new_position,
\*     is_paused, started_at).await?;  then new_session_state is built.
TickReport ==
    /\ tpc = "report"
    /\ \/ /\ reports' = Append(reports, ProgressReport(Current, tpos))
          /\ tnew' = Some(AdvancedState(Current, tpos, now))
          /\ tpc' = "update"
          /\ UNCHANGED <<tsnap, ti, tpos, tres>>
       \/ TickResult(Err("playback_progress"))
    /\ UNCHANGED sessions
    /\ UNCHANGED eventVars
    /\ UNCHANGED cacheVars
    /\ UNCHANGED bootVars
    /\ UNCHANGED clockVars
    /\ UNCHANGED reqVars

\* app.update_session(new_session_state).await?; updated += 1;
TickUpdate ==
    /\ tpc = "update"
    /\ \/ /\ sessions' = UpdateSession(sessions, tnew.val)
          /\ ti' = ti + 1
          /\ tpc' = "loop"
          /\ tnew' = None
          /\ tpos' = 0
          /\ UNCHANGED <<tsnap, reports, tres>>
       \/ /\ TickResult(Err("update_session"))
          /\ sessions' = sessions
    /\ UNCHANGED eventVars
    /\ UNCHANGED cacheVars
    /\ UNCHANGED bootVars
    /\ UNCHANGED clockVars
    /\ UNCHANGED reqVars

\* ----------------------------------------------- main.rs: heresphere_event

\* POST /heresphere/events/:sid/:vid arrives.
EventArrive(s, v, ev) ==
    /\ epc \in {"idle", "done"}
    /\ nEv < MaxEvents
    /\ nEv' = nEv + 1
    /\ epc' = "select"
    /\ ereq' = Some([sid |-> s, vid |-> v, event |-> ev])
    /\ UNCHANGED <<enew, eret>>
    /\ UNCHANGED sessions
    /\ UNCHANGED tickVars
    /\ UNCHANGED cacheVars
    /\ UNCHANGED bootVars
    /\ UNCHANGED clockVars
    /\ UNCHANGED reqVars

EventReturn(r) ==
    /\ epc' = "done"
    /\ eret' = Some(r)
    /\ ereq' = None
    /\ enew' = None

\* The state an event builds when it keeps the speed it read.
EventState_KeepsSpeed(s, user, ev, paused, t) ==
    SessionState(s,
        [user EXCEPT !.last_known_playback =
            Some([@.val EXCEPT !.is_paused = paused,
                               !.position_estimate = EventPosition(ev),
                               !.last_update = t])])

\* SessionState { id, session: Session::User(User { last_known_playback:
\*     Some(Playback { is_paused, speed: event.speed,
\*                     position_estimate: (event.time * 10000.0) as i64,
\*                     last_update: now, ..user.last_known_playback.unwrap() }),
\*     ..user }) }
EventState(s, user, ev, paused, t) ==
    SessionState(s,
        [user EXCEPT !.last_known_playback =
            Some([@.val EXCEPT !.is_paused = paused, !.speed = ev.speed,
                               !.position_estimate = EventPosition(ev),
                               !.last_update = t])])

\* A Close event handled as the end of the playback.
EventSelect_CloseStops ==
    /\ epc = "select"
    /\ LET s == ereq.val.sid
           ev == ereq.val.event
       IN \/ /\ sessions[s].some
             /\ sessions[s].val.kind = "User"
             /\ IF ev.event = "Open"
                THEN EventReturn(Ok("()"))
                ELSE IF ~sessions[s].val.last_known_playback.some
                THEN EventReturn(Err("panic: unwrap on None"))
                ELSE /\ enew' = Some(EventState(s, sessions[s].val, ev,
                                                ev.event \in {"Pause", "Close"}, now))
                     /\ epc' = "update"
                     /\ UNCHANGED <<ereq, eret>>
          \/ /\ sessions[s].some
             /\ sessions[s].val.kind = "QuickConnect"
             /\ EventReturn(Ok("()"))
          \/ /\ ~sessions[s].some
             /\ EventReturn(Err("No session found for request"))
          \/ EventReturn(Err("query"))
    /\ UNCHANGED <<sessions, nEv>>
    /\ UNCHANGED tickVars
    /\ UNCHANGED cacheVars
    /\ UNCHANGED bootVars
    /\ UNCHANGED clockVars
    /\ UNCHANGED reqVars

\* match app.get_session_from_heresphere_event(&sid).await { .. }, up to the
\* next .await.
EventSelect ==
    /\ epc = "select"
    /\ LET s == ereq.val.sid
           ev == ereq.val.event
       IN \/ /\ sessions[s].some
             /\ sessions[s].val.kind = "User"
             /\ IF ev.event \in {"Open", "Close"}
                THEN EventReturn(Ok("()"))
                ELSE IF ~sessions[s].val.last_known_playback.some
                THEN EventReturn(Err("panic: unwrap on None"))
                ELSE /\ enew' = Some(EventState(s, sessions[s].val, ev,
                                                ev.event = "Pause", now))
                     /\ epc' = "update"
                     /\ UNCHANGED <<ereq, eret>>
          \/ /\ sessions[s].some
             /\ sessions[s].val.kind = "QuickConnect"
             /\ EventReturn(Ok("()"))
          \/ /\ ~sessions[s].some
             /\ EventReturn(Err("No session found for request"))
          \/ EventReturn(Err("query"))
    /\ UNCHANGED <<sessions, nEv>>
    /\ UNCHANGED tickVars
    /\ UNCHANGED cacheVars
    /\ UNCHANGED bootVars
    /\ UNCHANGED clockVars
    /\ UNCHANGED reqVars

\* app.update_session(new_session_state).await?; Ok(())
EventUpdate ==
    /\ epc = "update"
    /\ \/ /\ sessions' = UpdateSession(sessions, enew.val)
          /\ EventReturn(Ok("()"))
       \/ /\ EventReturn(Err("update"))
          /\ sessions' = sessions
    /\ UNCHANGED nEv
    /\ UNCHANGED tickVars
    /\ UNCHANGED cacheVars
    /\ UNCHANGED bootVars
    /\ UNCHANGED clockVars
    /\ UNCHANGED reqVars

\* ------------------------------------ main.rs: root and handle_session

\* What QuickConnectSession::auth builds from the AuthenticationResult: the
\* user who approved the code.
JellyfinUser(u) == [id |-> u, token |-> u, username |-> u]

\* Session::User(User { user_id: resp.id, token: resp.token, username:
\*     resp.username, jellyvr_password: jellyvr_short_password,
\*     last_known_playback: None })
PromotedUser(resp, password) ==
    [kind |-> "User", user_id |-> resp.id, token |-> resp.token,
     username |-> resp.username, jellyvr_password |-> password,
     last_known_playback |-> None]

\* self.db.update("session").content(&SessionState { id: existing_state.id,
\*     session }): the resource is the table, so the content replaces that of
\* every record of the table; each record keeps its own id.
UpdateTable(tbl, id, content) ==
    [s \in DOMAIN tbl |-> IF tbl[s].some THEN Some(content) ELSE None]

\* session.first(): the first record of the table, in id order.
FirstRecord(tbl) ==
    LET id == CHOOSE s \in DOMAIN tbl :
                  tbl[s].some /\ \A t \in DOMAIN tbl : tbl[t].some => s <= t
    IN SessionState(id, tbl[id].val)

\* The user a Quick Connect code is approved by.
ApprovingUser(q) == q

\* A user approves a Quick Connect code on the upstream server.
Approve(q) ==
    /\ quick[q] = "waiting"
    /\ quick' = [quick EXCEPT ![q] = "approved"]
    /\ UNCHANGED <<hpc, hcookie, hstate, hnew, hret>>
    /\ UNCHANGED cacheVars
    /\ UNCHANGED playVars
    /\ UNCHANGED clockVars
    /\ UNCHANGED reqVars

\* jar.add(Cookie::new("jellyvr_session", state.id.unwrap().id.to_string()))
ResponseCookie(state) == state.id

\* GET / arrives, with or without a jellyvr_session cookie.
RootArrive(r, c) ==
    /\ hpc[r] = "idle"
    /\ hcookie' = [hcookie EXCEPT ![r] = c]
    /\ hpc' = [hpc EXCEPT ![r] = IF c.some THEN "select" ELSE "initiate"]
    /\ UNCHANGED <<quick, hstate, hnew, hret>>
    /\ UNCHANGED cacheVars
    /\ UNCHANGED playVars
    /\ UNCHANGED clockVars
    /\ UNCHANGED reqVars

\* handle_session returns to root.
HsReturn(r, res) ==
    /\ hpc' = [hpc EXCEPT ![r] = "done"]
    /\ hret' = [hret EXCEPT ![r] = Some(res)]
    /\ hstate' = [hstate EXCEPT ![r] = None]
    /\ hnew' = [hnew EXCEPT ![r] = None]

\* match &existing_state.session { .. }, up to the next .await.
HsMatch(r, st) ==
    IF st.session.kind = "User"
    THEN HsReturn(r, Ok(st))
    ELSE /\ hpc' = [hpc EXCEPT ![r] = "poll"]
         /\ hstate' = [hstate EXCEPT ![r] = Some(st)]
         /\ hnew' = [hnew EXCEPT ![r] = None]
         /\ UNCHANGED hret

\* Every request gets a new session, whatever its cookie names.
HsSelect_AlwaysNew(r) ==
    /\ hpc[r] = "select"
    /\ \/ /\ hpc' = [hpc EXCEPT ![r] = "initiate"]
          /\ UNCHANGED <<hstate, hnew, hret>>
       \/ HsReturn(r, Err("select"))
    /\ UNCHANGED <<quick, hcookie, sessions>>
    /\ UNCHANGED <<tickVars, eventVars>>
    /\ UNCHANGED cacheVars
    /\ UNCHANGED clockVars
    /\ UNCHANGED reqVars

\* let session: Option<SessionState> = self.db.select(("session", cookie)).await?;
HsSelect(r) ==
    /\ hpc[r] = "select"
    /\ LET c == hcookie[r].val
       IN \/ /\ sessions[c].some
             /\ HsMatch(r, SessionState(c, sessions[c].val))
          \/ /\ ~sessions[c].some
             /\ hpc' = [hpc EXCEPT ![r] = "initiate"]
             /\ UNCHANGED <<hstate, hnew, hret>>
          \/ HsReturn(r, Err("select"))
    /\ UNCHANGED <<quick, hcookie, sessions>>
    /\ UNCHANGED <<tickVars, eventVars>>
    /\ UNCHANGED cacheVars
    /\ UNCHANGED clockVars
    /\ UNCHANGED reqVars

\* new_session: let new_qc = self.jellyfin.client.new_quick_connect().await?;
HsInitiate(r) ==
    /\ hpc[r] = "initiate"
    /\ \/ \E q \in Secrets :
             /\ quick[q] = "unused"
             /\ quick' = [quick EXCEPT ![q] = "waiting"]
             /\ hnew' = [hnew EXCEPT ![r] = Some(QuickConnect(q))]
             /\ hpc' = [hpc EXCEPT ![r] = "create"]
             /\ UNCHANGED <<hstate, hret>>
       \/ /\ HsReturn(r, Err("new_quick_connect"))
          /\ UNCHANGED quick
    /\ UNCHANGED <<hcookie, sessions>>
    /\ UNCHANGED <<tickVars, eventVars>>
    /\ UNCHANGED cacheVars
    /\ UNCHANGED clockVars
    /\ UNCHANGED reqVars

\* The new record takes an id that may be in use.
HsCreate_AnyId(r) ==
    /\ hpc[r] = "create"
    /\ \/ \E id \in Sids :
             /\ sessions' = [sessions EXCEPT ![id] = hnew[r]]
             /\ HsMatch(r, SessionState(id, hnew[r].val))
       \/ /\ HsReturn(r, Err("create"))
          /\ UNCHANGED sessions
    /\ UNCHANGED <<quick, hcookie>>
    /\ UNCHANGED <<tickVars, eventVars>>
    /\ UNCHANGED cacheVars
    /\ UNCHANGED clockVars
    /\ UNCHANGED reqVars

\* new_session: self.db.create("session").content(..).await?; the record
\* gets an id of its own; then the match on existing_state.
HsCreate(r) ==
    /\ hpc[r] = "create"
    /\ \/ \E id \in Sids :
             /\ ~sessions[id].some
             /\ sessions' = [sessions EXCEPT ![id] = hnew[r]]
             /\ HsMatch(r, SessionState(id, hnew[r].val))
       \/ /\ HsReturn(r, Err("create"))
          /\ UNCHANGED sessions
    /\ UNCHANGED <<quick, hcookie>>
    /\ UNCHANGED <<tickVars, eventVars>>
    /\ UNCHANGED cacheVars
    /\ UNCHANGED clockVars
    /\ UNCHANGED reqVars

\* The session promoted whatever the poll answered.
HsPoll_IgnoresAnswer(r) ==
    /\ hpc[r] = "poll"
    /\ \/ /\ hpc' = [hpc EXCEPT ![r] = "auth"]
          /\ UNCHANGED <<hstate, hnew, hret>>
       \/ HsReturn(r, Err("poll"))
    /\ UNCHANGED <<quick, hcookie, sessions>>
    /\ UNCHANGED <<tickVars, eventVars>>
    /\ UNCHANGED cacheVars
    /\ UNCHANGED clockVars
    /\ UNCHANGED reqVars

\* let resp = qc.poll().await?; if resp { .. } else { Ok(existing_state) }
HsPoll(r) ==
    /\ hpc[r] = "poll"
    /\ \/ /\ quick[hstate[r].val.session.secret] = "approved"
          /\ hpc' = [hpc EXCEPT ![r] = "auth"]
          /\ UNCHANGED <<hstate, hnew, hret>>
       \/ /\ quick[hstate[r].val.session.secret] # "approved"
          /\ HsReturn(r, Ok(hstate[r].val))
       \/ HsReturn(r, Err("poll"))
    /\ UNCHANGED <<quick, hcookie, sessions>>
    /\ UNCHANGED <<tickVars, eventVars>>
    /\ UNCHANGED cacheVars
    /\ UNCHANGED clockVars
    /\ UNCHANGED reqVars

\* qc.auth(): POST /Users/AuthenticateWithQuickConnect, and the JellyfinUser
\* built from its answer.
HsAuth(r) ==
    /\ hpc[r] = "auth"
    /\ \/ /\ hnew' = [hnew EXCEPT ![r] =
                         Some(JellyfinUser(ApprovingUser(hstate[r].val.session.secret)))]
          /\ hpc' = [hpc EXCEPT ![r] = "caps"]
          /\ UNCHANGED <<hstate, hret>>
       \/ HsReturn(r, Err("auth"))
    /\ UNCHANGED <<quick, hcookie, sessions>>
    /\ UNCHANGED <<tickVars, eventVars>>
    /\ UNCHANGED cacheVars
    /\ UNCHANGED clockVars
    /\ UNCHANGED reqVars

\* The record written before the capabilities call has answered.
HsCaps_PersistsFirst(r) ==
    /\ hpc[r] = "caps"
    /\ \E rng \in {RngInputs[k] : k \in DOMAIN RngInputs} :
          LET content == PromotedUser(hnew[r].val, gen_short_password(PasswordLen, rng))
          IN /\ sessions' = UpdateTable(sessions, hstate[r].val.id, content)
             /\ \/ /\ hnew' = [hnew EXCEPT ![r] = Some(content)]
                   /\ hpc' = [hpc EXCEPT ![r] = "update"]
                   /\ UNCHANGED <<hstate, hret>>
                \/ HsReturn(r, Err("auth"))
    /\ UNCHANGED <<quick, hcookie>>
    /\ UNCHANGED <<tickVars, eventVars>>
    /\ UNCHANGED cacheVars
    /\ UNCHANGED clockVars
    /\ UNCHANGED reqVars

\* qc.auth(): POST /Sessions/Capabilities/Full; then
\* let jellyvr_short_password = gen_short_password(6); and the content of the
\* update is built.
HsCaps(r) ==
    /\ hpc[r] = "caps"
    /\ \/ \E rng \in {RngInputs[k] : k \in DOMAIN RngInputs} :
             /\ hnew' = [hnew EXCEPT ![r] =
                            Some(PromotedUser(hnew[r].val, gen_short_password(PasswordLen, rng)))]
             /\ hpc' = [hpc EXCEPT ![r] = "update"]
             /\ UNCHANGED <<hstate, hret>>
       \/ HsReturn(r, Err("auth"))
    /\ UNCHANGED <<quick, hcookie, sessions>>
    /\ UNCHANGED <<tickVars, eventVars>>
    /\ UNCHANGED cacheVars
    /\ UNCHANGED clockVars
    /\ UNCHANGED reqVars

\* self.db.update("session").content(..).await?;
\* Ok(session.first().expect("No session created").clone())
HsUpdate(r) ==
    /\ hpc[r] = "update"
    /\ \/ /\ sessions' = UpdateTable(sessions, hstate[r].val.id, hnew[r].val)
          /\ HsReturn(r, Ok(FirstRecord(sessions')))
       \/ /\ HsReturn(r, Err("update"))
          /\ UNCHANGED sessions
    /\ UNCHANGED <<quick, hcookie>>
    /\ UNCHANGED <<tickVars, eventVars>>
    /\ UNCHANGED cacheVars
    /\ UNCHANGED clockVars
    /\ UNCHANGED reqVars

\* Session records a database may hold when a GET / arrives: a pairing that
\* waits or is approved, or a user promoted earlier.
BootInit ==
    \E tbl \in [Sids -> {None} \cup {Some(x) : x \in UNION {{QuickConnect(s), User(s, None)} : s \in Sids}}],
       appr \in SUBSET Secrets :
        /\ \A s \in Sids : tbl[s].some => tbl[s].val \in {QuickConnect(s), User(s, None)}
        /\ \A q \in appr : tbl[q] = Some(QuickConnect(q))
        /\ sessions = tbl
        /\ quick = [q \in Secrets |->
                      IF q \in appr \/ tbl[q] = Some(User(q, None)) THEN "approved"
                      ELSE IF tbl[q] = Some(QuickConnect(q)) THEN "waiting" ELSE "unused"]
        /\ now = 0
        /\ nAdv = 0
        /\ catalog = <<BaseItem(1, FALSE), BaseItem(2, TRUE)>>
        /\ PlayIdle
        /\ index = [u \in Users |-> None]
        /\ videos = [k \in Users \X Items |-> None]
        /\ pc = [h \in Handlers |-> "idle"]
        /\ usr = [h \in Handlers |-> 1]
        /\ vid = [h \in Handlers |-> 1]
        /\ arm = [h \in Handlers |-> "-"]
        /\ idx = [h \in Handlers |-> None]
        /\ vids = [h \in Handlers |-> <<>>]
        /\ ret = [h \in Handlers |-> None]

\* Concurrent GET / requests, one per handler, and approvals upstream.
BootNext ==
    \/ \E q \in Secrets : Approve(q)
    \/ \E r \in Roots, c \in {None} \cup {Some(s) : s \in Sids} : RootArrive(r, c)
    \/ \E r \in Roots : HsSelect(r)
    \/ \E r \in Roots : HsInitiate(r)
    \/ \E r \in Roots : HsCreate(r)
    \/ \E r \in Roots : HsPoll(r)
    \/ \E r \in Roots : HsAuth(r)
    \/ \E r \in Roots : HsCaps(r)
    \/ \E r \in Roots : HsUpdate(r)

BootSpec == BootInit /\ [][BootNext]_vars

\* ------------------------- main.rs: HeresphereSession and heresphere_video

\* The username and password a client may send: a user's name with one of
\* the passwords.
CredentialInputs ==
    {[username |-> u, password |-> gen_short_password(PasswordLen, RngInputs[k])] :
        u \in Users, k \in DOMAIN RngInputs}

\* needs_media_source of the request body.
NeedsMediaSourceInputs == {None, Some(TRUE)}

\* The play session id PlaybackInfo answers with; the playbacks a database
\* starts with have play session 1.
PlaySessionId == 2

\* A lookup by the username alone.
get_session_from_heresphere_request_UsernameOnly(tbl, req) ==
    LET found == {s \in DOMAIN tbl :
                     /\ tbl[s].some
                     /\ tbl[s].val.kind = "User"
                     /\ tbl[s].val.username = req.username}
    IN IF found = {} THEN Err("No session found for request")
       ELSE LET s == CHOOSE x \in found : \A y \in found : x <= y
            IN Ok(SessionState(s, tbl[s].val))

\* "SELECT * FROM session WHERE session.User.username = $username AND
\*  session.User.jellyvr_password = $password LIMIT 1"
get_session_from_heresphere_request(tbl, req) ==
    LET found == {s \in DOMAIN tbl :
                     /\ tbl[s].some
                     /\ tbl[s].val.kind = "User"
                     /\ tbl[s].val.username = req.username
                     /\ tbl[s].val.jellyvr_password = req.password}
    IN IF found = {} THEN Err("No session found for request")
       ELSE LET s == CHOOSE x \in found : \A y \in found : x <= y
            IN Ok(SessionState(s, tbl[s].val))

\* The playback of a video request that starts playing at once.
StartedState_Playing(st, v, psid, video, t) ==
    SessionState(st.id,
        [st.session EXCEPT !.last_known_playback =
            Some(Playback(psid, v, video.data.duration * TicksPerMs, 0,
                          Speed(1, 1), t, t, FALSE))])

\* The state of a video request that keeps tracking the play session it
\* found.
StartedState_KeepsPlaySession(st, v, psid, video, t) ==
    SessionState(st.id,
        [st.session EXCEPT !.last_known_playback =
            IF @.some
            THEN Some([@.val EXCEPT !.position_estimate = 0, !.is_paused = TRUE,
                                    !.last_update = t])
            ELSE Some(Playback(psid, v, video.data.duration * TicksPerMs, 0,
                               Speed(1, 1), t, t, TRUE))])

\* SessionState { id: session_state.id, session: Session::User(User {
\*     last_known_playback: Some(Playback { play_session_id, video_id: vid,
\*         duration: (video.data.duration * 10000.0) as i64,
\*         position_estimate: 0, speed: 1.0, started_at: now,
\*         last_update: now, is_paused: true }), ..user }) }
StartedState(st, v, psid, video, t) ==
    SessionState(st.id,
        [st.session EXCEPT !.last_known_playback =
            Some(Playback(psid, v, video.data.duration * TicksPerMs, 0,
                          Speed(1, 1), t, t, TRUE))])

\* The payload of the extractor's rejection: {"access": -1, "library": ..}
NotLoggedIn == Err("access -1")

\* What the client gets for the result of a handler: the handler's answer,
\* the extractor's rejection, or AppError::into_response:
\* (StatusCode::INTERNAL_SERVER_ERROR, self.0.to_string())
IntoResponse(res) ==
    IF res.ok THEN [status |-> "OK", body |-> res.val]
    ELSE IF res = NotLoggedIn THEN [status |-> "OK", body |-> res.err]
    ELSE [status |-> "INTERNAL_SERVER_ERROR", body |-> res.err]

\* POST /heresphere/:vid arrives.
VideoArrive(cred, v, nms) ==
    /\ vpc \in {"idle", "done"}
    /\ vpc' = "extract"
    /\ vreq' = Some([username |-> cred.username, password |-> cred.password,
                     vid |-> v, needs_media_source |-> nms])
    /\ UNCHANGED <<vst, vnew, vret>>
    /\ UNCHANGED cacheVars
    /\ UNCHANGED playVars
    /\ UNCHANGED bootVars
    /\ UNCHANGED clockVars

\* The request is answered.
VideoReturn(r) ==
    /\ vpc' = "done"
    /\ vret' = Some(r)
    /\ vreq' = None
    /\ vst' = None
    /\ vnew' = None

\* HeresphereSession::from_request: the session is looked up by the
\* credentials of the body; every failure is answered with "access": -1.
VideoExtract ==
    /\ vpc = "extract"
    /\ \/ LET res == get_session_from_heresphere_request(sessions, vreq.val)
          IN IF res.ok
             THEN /\ vst' = Some([session_state |-> res.val, video |-> None])
                  /\ vpc' = "get_video"
                  /\ UNCHANGED <<vreq, vnew, vret>>
             ELSE VideoReturn(Err("access -1"))
       \/ VideoReturn(Err("access -1"))
    /\ UNCHANGED cacheVars
    /\ UNCHANGED playVars
    /\ UNCHANGED bootVars
    /\ UNCHANGED clockVars

\* let mut video = HeresphereIndex::get_video(&app.db, &user.user_id, &vid).await?;
\* if let Some(true) = request.needs_media_source { .. }
VideoGet ==
    /\ vpc = "get_video"
    /\ LET key == <<vst.val.session_state.session.user_id, vreq.val.vid>>
       IN \/ /\ videos[key].some
             /\ IF vreq.val.needs_media_source = Some(TRUE)
                THEN /\ vst' = Some([vst.val EXCEPT !.video = videos[key]])
                     /\ vpc' = "playback_info"
                     /\ UNCHANGED <<vreq, vnew, vret>>
                ELSE VideoReturn(Ok([data |-> videos[key].val.data, event_server |-> None]))
          \/ /\ ~videos[key].some
             /\ VideoReturn(Err("No video found"))
          \/ VideoReturn(Err("query"))
    /\ UNCHANGED cacheVars
    /\ UNCHANGED playVars
    /\ UNCHANGED bootVars
    /\ UNCHANGED clockVars

\* let playback_info = jellyfin_user.playback_info(&vid).await?; .. and the
\* new_session_state built from it, with the clock read at that moment.
VideoInfo ==
    /\ vpc = "playback_info"
    /\ \/ /\ vnew' = Some(StartedState(vst.val.session_state, vreq.val.vid,
                                       PlaySessionId, vst.val.video.val, now))
          /\ vpc' = "update"
          /\ UNCHANGED <<vreq, vst, vret>>
       \/ VideoReturn(Err("Failed to get play session ID"))
       \/ VideoReturn(Err("playback_info"))
    /\ UNCHANGED cacheVars
    /\ UNCHANGED playVars
    /\ UNCHANGED bootVars
    /\ UNCHANGED clockVars

\* app.update_session(new_session_state).await?;
VideoUpdate ==
    /\ vpc = "update"
    /\ \/ /\ sessions' = UpdateSession(sessions, vnew.val)
          /\ vpc' = "playback_start"
          /\ UNCHANGED <<vreq, vst, vnew, vret>>
       \/ /\ VideoReturn(Err("update_session"))
          /\ sessions' = sessions
    /\ UNCHANGED <<tickVars, eventVars>>
    /\ UNCHANGED cacheVars
    /\ UNCHANGED bootVars
    /\ UNCHANGED clockVars

\* jellyfin_user.playback_start(&vid, &play_session).await?; and the answer,
\* with the event server of the session.
VideoStart ==
    /\ vpc = "playback_start"
    /\ \/ VideoReturn(Ok([data |-> vst.val.video.val.data,
                          event_server |-> Some(<<vst.val.session_state.id, vreq.val.vid>>)]))
       \/ VideoReturn(Err("playback_start"))
    /\ UNCHANGED cacheVars
    /\ UNCHANGED playVars
    /\ UNCHANGED bootVars
    /\ UNCHANGED clockVars

\* The extractor answers unknown credentials with the server's error.
CatalogArrive_GenericFailure(h, cred) ==
    /\ pc[h] = "idle"
    /\ LET res == get_session_from_heresphere_request(sessions, cred)
       IN IF res.ok
          THEN Call(h, res.val.session.user_id)
          ELSE /\ Return(h, res)
               /\ UNCHANGED <<catalog, index, videos, usr, vid, arm>>
               /\ UNCHANGED clockVars
               /\ UNCHANGED playVars
               /\ UNCHANGED bootVars
               /\ UNCHANGED reqVars

\* POST /heresphere or /heresphere/scan arrives: the extractor resolves the
\* session by the credentials of the body, and heresphere_libraries /
\* heresphere_scan enter prime_data_maybe for its user.
CatalogArrive(h, cred) ==
    /\ pc[h] = "idle"
    /\ LET res == get_session_from_heresphere_request(sessions, cred)
       IN IF res.ok
          THEN Call(h, res.val.session.user_id)
          ELSE /\ Return(h, Err("access -1"))
               /\ UNCHANGED <<catalog, index, videos, usr, vid, arm>>
               /\ UNCHANGED clockVars
               /\ UNCHANGED playVars
               /\ UNCHANGED bootVars
               /\ UNCHANGED reqVars

\* The video requests of a client, one after the other, while time passes.
VideoNext ==
    \/ AdvancePlay
    \/ \E cred \in CredentialInputs, v \in Items, nms \in NeedsMediaSourceInputs :
          VideoArrive(cred, v, nms)
    \/ VideoExtract
    \/ VideoGet
    \/ VideoInfo
    \/ VideoUpdate
    \/ VideoStart

\* ------------------------------------------- every operation on sessions

\* The database when the requests below arrive, 30 ms after its last
\* write: a user who is watching item 1 (of unknown duration next to a
\* pairing that waits for its approval, of 600 ms next to no other session);
\* the library of both users has been cached.
SessInit ==
    \E tbl \in { <<Some(QuickConnect(1)),
                   Some(User(2, Some(Playback(1, 1, 0, 590 * TicksPerMs,
                                              Speed(1, 1), 0, 0, FALSE))))>>,
                 <<Some(User(1, Some(Playback(1, 1, 600 * TicksPerMs, 590 * TicksPerMs,
                                              Speed(1, 1), 0, 0, FALSE)))),
                   None>> } :
        /\ sessions = tbl
        /\ quick = [q \in Secrets |->
                      IF \E s \in Sids : tbl[s] = Some(QuickConnect(q)) THEN "waiting" ELSE "unused"]
        /\ now = 30
        /\ nAdv = 0
        /\ catalog = <<BaseItem(1, FALSE), BaseItem(2, TRUE)>>
        /\ PlayIdle
        /\ index = [u \in Users |-> Some(HeresphereIndex(u, catalog, 0))]
        /\ videos = InsertVideos(InsertVideos([k \in Users \X Items |-> None],
                                              baseitems_to_video_cache(1, catalog, 0)),
                                 baseitems_to_video_cache(2, catalog, 0))
        /\ pc = [h \in Handlers |-> "idle"]
        /\ usr = [h \in Handlers |-> 1]
        /\ vid = [h \in Handlers |-> 1]
        /\ arm = [h \in Handlers |-> "-"]
        /\ idx = [h \in Handlers |-> None]
        /\ vids = [h \in Handlers |-> <<>>]
        /\ ret = [h \in Handlers |-> None]

\* The credentials of the users of SessInit, as their clients send them.
SessCredentials ==
    {[username |-> u, password |-> gen_short_password(PasswordLen, RngInputs[u])] : u \in Users}

\* The event of these behaviours: the player pauses at 80 ms.
SessEvents == {[event |-> "Pause", time |-> 80, speed |-> Speed(1, 1)]}

\* The number of operations that have started: the bootstrap page, the
\* catalog, the video request, the event and the background task.
Started ==
    (IF hpc[1] = "idle" THEN 0 ELSE 1)
    + (IF pc[1] = "idle" THEN 0 ELSE 1)
    + (IF vpc = "idle" THEN 0 ELSE 1)
    + (IF epc = "idle" THEN 0 ELSE 1)
    + (IF tpc = "sleep" /\ ~tres.some THEN 0 ELSE 1)

\* The bootstrap page, the catalog, a video, the player's event and the
\* background task: up to MaxOps of them, each once, interleaved in every
\* way.
SessNext ==
    \/ \E q \in Secrets : Approve(q)
    \/ \E c \in {None} \cup {Some(s) : s \in Sids} :
          Started < MaxOps /\ RootArrive(1, c)
    \/ HsSelect(1)
    \/ HsInitiate(1)
    \/ HsCreate(1)
    \/ HsPoll(1)
    \/ HsAuth(1)
    \/ HsCaps(1)
    \/ HsUpdate(1)
    \/ \E cred \in SessCredentials :
          Started < MaxOps /\ CatalogArrive(1, cred)
    \/ PdmSelect(1)
    \/ \E cred \in SessCredentials, nms \in NeedsMediaSourceInputs :
          Started < MaxOps /\ vpc = "idle" /\ VideoArrive(cred, 1, nms)
    \/ VideoExtract
    \/ VideoGet
    \/ VideoInfo
    \/ VideoUpdate
    \/ VideoStart
    \/ \E s \in Sids, ev \in SessEvents :
          Started < MaxOps /\ epc = "idle" /\ EventArrive(s, 1, ev)
    \/ EventSelect
    \/ EventUpdate
    \/ Started < MaxOps /\ ~tres.some /\ TickFire
    \/ TickSelect
    \/ TickLoop
    \/ TickStop
    \/ TickReport
    \/ TickUpdate

SessSpec == SessInit /\ [][SessNext]_vars

VideoSpec == SessInit /\ [][VideoNext]_vars

\* One video request for item 1, the events of the player and the background
\* task, interleaved in every way.
StartNext ==
    \/ \E cred \in SessCredentials, nms \in NeedsMediaSourceInputs :
          vpc = "idle" /\ VideoArrive(cred, 1, nms)
    \/ VideoExtract
    \/ VideoGet
    \/ VideoInfo
    \/ VideoUpdate
    \/ VideoStart
    \/ \E s \in Sids, ev \in PlayPauseInputs : EventArrive(s, 1, ev)
    \/ EventSelect
    \/ EventUpdate
    \/ TickFire
    \/ TickSelect
    \/ TickLoop
    \/ TickStop
    \/ TickReport
    \/ TickUpdate

StartSpec == SessInit /\ [][StartNext]_vars

\* Concurrent requests: every handler serves one request.
Next ==
    \/ AdvanceCache
    \/ UpstreamChange
    \/ \E h \in Handlers, u \in Users : Arrive(h, u)
    \/ \E h \in Handlers : PdmSelect(h)
    \/ \E h \in Handlers : PdItems(h)
    \/ \E h \in Handlers : PdWriteIndex(h)
    \/ \E h \in Handlers : PdWriteVideos(h)
    \/ \E h \in Handlers, u \in Users, i \in Items : ArriveVideo(h, u, i)
    \/ \E h \in Handlers : get_video(h)

Spec == Init /\ [][Next]_vars

\* Requests that come one after the other, any number of them.
SeqNext ==
    \/ AdvanceCache
    \/ UpstreamChange
    \/ \E h \in Handlers, u \in Users : SeqCall(h, u)
    \/ \E h \in Handlers : PdmSelect(h)
    \/ \E h \in Handlers : PdItems(h)
    \/ \E h \in Handlers : PdWriteIndex(h)
    \/ \E h \in Handlers : PdWriteVideos(h)

SeqSpec == Init /\ [][SeqNext]_vars

\* The background task alone, over a database that holds sessions: the
\* client sends no event.
TickNext ==
    \/ AdvancePlay
    \/ TickFire
    \/ TickSelect
    \/ TickLoop
    \/ TickStop
    \/ TickReport
    \/ TickUpdate

TickSpec == TickInit /\ [][TickNext]_vars

\* The same, with the scheduling of the task: the interval fires again and
\* again, and every call the routine awaits returns, with Ok or with Err.
TickFairSpec ==
    /\ PlayInit
    /\ [][TickNext]_vars
    /\ WF_vars(TickFire)
    /\ WF_vars(TickSelect)
    /\ WF_vars(TickLoop)
    /\ WF_vars(TickStop)
    /\ WF_vars(TickReport)
    /\ WF_vars(TickUpdate)

\* Databases with playbacks of items whose duration is unknown (0, the
\* default of a missing RunTimeTicks) or negative (a negative RunTimeTicks),
\* next to a playback of known duration or a pairing that waits.
NoDurationInit ==
    \E tbl \in { <<Some(User(1, Some(Playback(1, 1, 0, 590 * TicksPerMs,
                                              Speed(1, 1), 0, 0, FALSE)))),
                   Some(User(2, Some(Playback(1, 1, 600 * TicksPerMs, 590 * TicksPerMs,
                                              Speed(1, 1), 0, 0, FALSE))))>>,
                 <<Some(User(1, Some(Playback(1, 2, -600 * TicksPerMs, 590 * TicksPerMs,
                                              Speed(1, 2), 0, 0, FALSE)))),
                   Some(QuickConnect(2))>> } :
        StartOn(tbl)

\* The background task alone over these databases.
NoDurationSpec == NoDurationInit /\ [][TickNext]_vars

\* The background task with its scheduling, over a database that answers
\* in the end: the interval fires again and again, every awaited call
\* returns, and a database call that is made again and again succeeds at
\* some point. The upstream server may fail every report.
TickDbFairSpec ==
    /\ TickInit
    /\ [][TickNext]_vars
    /\ WF_vars(TickFire)
    /\ WF_vars(TickLoop)
    /\ WF_vars(TickReport)
    /\ SF_vars(TickSelect /\ tpc' = "loop")
    /\ SF_vars(TickStop /\ tpc' = "loop")
    /\ SF_vars(TickUpdate /\ tpc' = "loop")

\* The background task and the event handler over a database that holds
\* sessions.
PlayNext ==
    \/ AdvancePlay
    \/ TickFire
    \/ TickSelect
    \/ TickLoop
    \/ TickStop
    \/ TickReport
    \/ TickUpdate
    \/ \E s \in Sids, v \in Items, ev \in EventInputs : EventArrive(s, v, ev)
    \/ EventSelect
    \/ EventUpdate

PlaySpec == PlayInit /\ [][PlayNext]_vars

\* The event handler alone: the client sends its events one after the
\* other while time passes.
EventNext ==
    \/ AdvancePlay
    \/ \E s \in Sids, v \in Items, ev \in EventInputs : EventArrive(s, v, ev)
    \/ EventSelect
    \/ EventUpdate

EventSpec == PlayInit /\ [][EventNext]_vars

\* An event whose time is past the end of the item (600 ms): the handler
\* stores the time of an event as it comes.
PastEndEvents == {[event |-> "Play", time |-> 610, speed |-> Speed(1, 1)]}

\* The background task, and a client that sends such events for item 1.
PastEndNext ==
    \/ AdvancePlay
    \/ TickFire
    \/ TickSelect
    \/ TickLoop
    \/ TickStop
    \/ TickReport
    \/ TickUpdate
    \/ \E s \in Sids, ev \in PastEndEvents : EventArrive(s, 1, ev)
    \/ EventSelect
    \/ EventUpdate

\* A database with a user who is watching item 1 and a pairing that waits.
PastEndInit ==
    StartOn(<<Some(User(1, Some(Playback(1, 1, 600 * TicksPerMs, 590 * TicksPerMs,
                                         Speed(1, 1), 0, 0, FALSE)))),
              Some(QuickConnect(2))>>)

PastEndSpec == PastEndInit /\ [][PastEndNext]_vars

\* ------------------------------------------------------ claims: the cache

\* A build of user u is in flight in handler h: prime_data has been entered
\* and has not returned.
Building(h, u) == pc[h] \in {"items", "index", "videos"} /\ usr[h] = u

\* Handler h has returned Ok(entry) from prime_data_maybe.
ReturnedEntry(h) == pc[h] = "done" /\ arm[h] # "-" /\ ret[h].some /\ ret[h].val.ok

\* The step in which handler h gets the answer of its db.select.
SelectStep(h) == pc[h] = "select" /\ pc'[h] # "select"

SelectFailed(h) == ret'[h] = Some(Err("select"))

\* C1: single-flight rebuild: in no reachable state are two builds (two
\* LibraryBuilder invocations) for the same user in flight.
C1_SingleFlight ==
    \A u \in Users : Cardinality({h \in Handlers : Building(h, u)}) <= 1

\* C2: all calls for a user that started on a cold cache return the same
\* entry, and that entry is the one persisted for the user once they have
\* all returned.
C2_SameEntryForAll ==
    \A h \in Handlers, g \in Handlers :
        (/\ ReturnedEntry(h) /\ ReturnedEntry(g)
         /\ arm[h] = "None" /\ arm[g] = "None"
         /\ usr[h] = usr[g])
        => /\ ret[h].val.val = ret[g].val.val
           /\ index[usr[h]] = Some(ret[h].val.val)

\* C3: the persisted CacheEntry of a user and the user's VideoRecords are of
\* one build: every item linked from the entry has a VideoRecord stamped by
\* the same build.
C3_EntryAndVideosAreOneUnit ==
    \A u \in Users :
        index[u].some =>
            \A k \in DOMAIN index[u].val.libraries[1].list :
                LET i == index[u].val.libraries[1].list[k].link
                IN /\ videos[<<u, i>>].some
                   /\ videos[<<u, i>>].val.last_updated = index[u].val.last_updated

\* C4: a call that follows a call for the same user which returned an entry,
\* and that happens within the lifetime of that entry, returns the same
\* payload and does not invoke LibraryBuilder (it returns from the select).
C4_SecondCallWithinLifetime ==
    [][\A h \in Handlers :
         (/\ SelectStep(h) /\ ~SelectFailed(h)
          /\ ret[h].some /\ ret[h].val.ok
          /\ ret[h].val.val.id = usr[h]
          /\ now - ret[h].val.val.last_updated <= cache_lifetime)
         => /\ pc'[h] = "done"
            /\ ret'[h] = ret[h]
            /\ index' = index /\ videos' = videos]_vars

\* A second call was served the entry a first call built earlier.
C4_Witness ==
    \E h \in Handlers :
        /\ ReturnedEntry(h) /\ arm[h] = "Fresh"
        /\ ret[h].val.val.last_updated = 0
        /\ now = 119000

\* C5 as stated: the cached entry is served only when its age is strictly
\* less than the lifetime.
C5_ServedOnlyBelowLifetime ==
    [][\A h \in Handlers :
         (SelectStep(h) /\ arm'[h] = "Fresh")
         => now - index[usr[h]].val.last_updated < cache_lifetime]_vars

\* C5 amended: the cached entry is served exactly when it exists and its age
\* is at most the lifetime; otherwise LibraryBuilder is invoked, and the call
\* that gets through the fetch and both writes returns the entry it built.
C5_ServedIffAgeAtMostLifetime ==
    [][\A h \in Handlers :
         /\ (SelectStep(h) /\ ~SelectFailed(h))
            => IF index[usr[h]].some
                  /\ now - index[usr[h]].val.last_updated <= cache_lifetime
               THEN pc'[h] = "done" /\ ret'[h] = Some(Ok(index[usr[h]].val))
               ELSE pc'[h] = "items" /\ ret'[h] = ret[h]
         /\ (pc[h] = "items" /\ pc'[h] = "index")
            => idx'[h] = Some(HeresphereIndex(usr[h], catalog, now))
         /\ (pc[h] = "videos" /\ pc'[h] = "done" /\ ret'[h].val.ok)
            => ret'[h] = Some(Ok(idx[h].val))]_vars

\* An entry whose age is exactly the lifetime has been served.
C5_Witness ==
    \E h \in Handlers :
        /\ ReturnedEntry(h) /\ arm[h] = "Fresh"
        /\ now - ret[h].val.val.last_updated = cache_lifetime
        /\ index[usr[h]] = Some(ret[h].val.val)

\* C6: an entry is stale exactly when now - last_updated > lifetime: a call
\* that finds an entry rebuilds iff the entry is older than the lifetime, a
\* served entry keeps its last_updated, and a rebuilt entry is stamped with
\* the time of the rebuild.
C6_StaleIffOlderThanLifetime ==
    [][\A h \in Handlers :
         /\ (SelectStep(h) /\ ~SelectFailed(h) /\ index[usr[h]].some)
            => /\ (pc'[h] = "items")
                   <=> (now - index[usr[h]].val.last_updated > cache_lifetime)
               /\ (pc'[h] = "done")
                   <=> (now - index[usr[h]].val.last_updated <= cache_lifetime)
               /\ pc'[h] = "done"
                   => ret'[h].val.val.last_updated = index[usr[h]].val.last_updated
               /\ index' = index
         /\ (pc[h] = "items" /\ pc'[h] = "index")
            => idx'[h].val.last_updated = now]_vars

\* The scenario: the entry built at t=0 was found at t=121s, rebuilt, and the
\* call returned an entry stamped 121s.
C6_Witness ==
    \E h \in Handlers :
        /\ ReturnedEntry(h) /\ arm[h] = "TooOld"
        /\ now = 121000
        /\ ret[h].val.val.last_updated = 121000
        /\ index[usr[h]] = Some(ret[h].val.val)

\* The step in which handler h gets the answer of get_video's query.
GetVideoStep(h) == pc[h] = "get_video" /\ pc'[h] # "get_video"

\* C7: get_video is a point lookup: it changes no CacheEntry and no
\* VideoRecord, starts no build in any handler, and returns an error, "No
\* video found" unless the query itself failed, when the record is absent.
C7_GetVideoIsPointLookup ==
    [][\A h \in Handlers :
         GetVideoStep(h)
         => /\ index' = index /\ videos' = videos /\ catalog' = catalog
            /\ pc'[h] = "done"
            /\ \A g \in Handlers \ {h} : pc'[g] = pc[g]
            /\ IF videos[<<usr[h], vid[h]>>].some
               THEN ret'[h].val \in {Ok(videos[<<usr[h], vid[h]>>].val), Err("query")}
               ELSE ret'[h].val \in {Err("No video found"), Err("query")}]_vars

\* A lookup of an item the user's stale cache entry does not hold returned
\* "No video found", and the entry is still the stale one.
C7_Witness ==
    \E h \in Handlers :
        /\ pc[h] = "done" /\ arm[h] = "-"
        /\ ret[h] = Some(Err("No video found"))
        /\ index[usr[h]].some
        /\ IsTooOld(index[usr[h]].val, now)

\* ------------------------------------------- claims: the background task

\* The playback of a session record that has one.
PlaybackOf(sess) == sess.last_known_playback.val

\* The routine writes the record of session s in this step.
TickWrites(s) ==
    /\ tpc \in {"stop", "update"}
    /\ tpc' = "loop"
    /\ Current.id = s

\* No client event has changed the record of session s since the routine
\* read it.
NoInterveningEvent(s) == sessions[s] = Some(Current.session)

\* C8: across ticks with no intervening client event, the persisted position
\* of a playback that is not paused never decreases, and a tick that finds
\* the predicted position past the duration pauses the playback and leaves
\* its position where it was.
C8_PositionNeverDecreases ==
    [][\A s \in Sids :
          (TickWrites(s) /\ NoInterveningEvent(s)) =>
              LET old == PlaybackOf(sessions[s].val)
                  new == PlaybackOf(sessions'[s].val)
              IN /\ new.position_estimate >= old.position_estimate
                 /\ tpc = "stop" =>
                        new.is_paused /\ new.position_estimate = old.position_estimate]_vars

\* The predicted position of a playback at time t is past its duration.
PredictedPastDuration(pb, t) ==
    pb.duration > 0 /\ NewPosition(pb, t) > pb.duration

\* The body of the loop runs on a session with a playback that is not paused,
\* up to its first await.
LoopStep == tpc = "loop" /\ ti <= Len(tsnap) /\ Tracked(Current) /\ tpc' # "loop"

\* C9: when a tick finds a playback that is not paused with a duration above
\* zero and a predicted position above the duration, it persists the playback
\* paused with last_update set to the time of the finding, everything else as
\* read, and sends no progress report for that session in that tick.
C9_OverrunAutoStop ==
    [][/\ (LoopStep /\ PredictedPastDuration(PlaybackOf(Current.session), now)) =>
              /\ tpc' = "stop"
              /\ tnew'.some
              /\ tnew'.val.id = Current.id
              /\ PlaybackOf(tnew'.val.session) =
                    [PlaybackOf(Current.session) EXCEPT !.is_paused = TRUE, !.last_update = now]
              /\ reports' = reports
       /\ (tpc = "stop" /\ tpc' = "loop") =>
              /\ sessions' = [sessions EXCEPT ![Current.id] = Some(tnew.val.session)]
              /\ PlaybackOf(sessions'[Current.id].val).is_paused
              /\ reports' = reports
              /\ \A k \in 1..Len(reports) : reports[k].sid # Current.id
       /\ (reports' # reports /\ tpc' # "sleep") =>
              /\ tpc = "report"
              /\ reports' = Append(reports, ProgressReport(Current, tpos))
              /\ ~(PlaybackOf(Current.session).duration > 0
                    /\ tpos > PlaybackOf(Current.session).duration)]_vars

\* C9 witness: duration 600, position 590, speed 1.0, 30 elapsed: the record
\* is persisted paused with last_update 30 and no report was sent for it.
C9_Witness ==
    \E s \in Sids :
        /\ now = 30
        /\ tpc = "loop"
        /\ ti > 1
        /\ tsnap[ti - 1].id = s
        /\ sessions[s] = Some(User(s, Some(Playback(1, 1, 600 * TicksPerMs, 590 * TicksPerMs,
                                                     Speed(1, 1), 0, 30, TRUE))))
        /\ \A k \in 1..Len(reports) : reports[k].sid # s

\* A step of the loop body fails: the report to the media server or the
\* write of the record returns an error.
TickStepFails == tpc \in {"stop", "report", "update"} /\ tpc' = "sleep"

\* C10: when the report or the write fails for one session, every other
\* session with a playback that is not paused, which the tick has not yet
\* handled, is still processed in that tick: the tick does not end with such
\* a session left over.
C10_FailureIsolation ==
    [][TickStepFails =>
          \A k \in (ti + 1)..Len(tsnap) : ~Tracked(tsnap[k])]_vars

\* The report to the media server fails in this step.
ReportFails == tpc = "report" /\ tpc' # "report" /\ tpc' # "update"

\* C11: when the progress report of a session fails in a tick, the persisted
\* record of the session is left as it was, the report is the only one the
\* tick attempts for that session, and the tick does not come back to it: the
\* routine returns the error.
C11_FailedReportLeavesRecord ==
    [][/\ ReportFails =>
              /\ sessions' = sessions
              /\ tpc' = "sleep"
              /\ tsnap' = <<>>
              /\ tres' = Some(Err("playback_progress"))
       /\ tpc = "report" =>
              \A k \in 1..Len(reports) : reports[k].sid # Current.id]_vars

\* C11 witness: the routine has returned the error of the report and the
\* record of a playing session still holds the position and last_update of
\* the start, although time has passed.
C11_Witness ==
    /\ tpc = "sleep"
    /\ tres = Some(Err("playback_progress"))
    /\ now > 0
    /\ \E s \in Sids :
          sessions[s] = Some(User(s, Some(Playback(1, 1, 600 * TicksPerMs, 590 * TicksPerMs,
                                                   Speed(1, 1), 0, 0, FALSE))))

Abs(x) == IF x < 0 THEN -x ELSE x

\* pos is old plus a whole number of milliseconds, the number nearest to
\* elapsed * speed.
IsPredicted(pos, pb, t) ==
    LET r == (pos - pb.position_estimate) \div TicksPerMs
    IN /\ pos = pb.position_estimate + r * TicksPerMs
       /\ 2 * Abs(r * pb.speed.den - (t - pb.last_update) * pb.speed.num) <= pb.speed.den

\* C12: for a playback that is not paused and does not overrun, the tick
\* predicts position + elapsed * speed (to the millisecond), reports
\* (video_id, play_session_id, predicted, is_paused = false, started_at) and,
\* when the report succeeds, persists position = predicted and last_update =
\* the time read after the report, everything else as read.
C12_ReportThenPersist ==
    [][/\ (LoopStep /\ ~PredictedPastDuration(PlaybackOf(Current.session), now)) =>
              /\ tpc' = "report"
              /\ IsPredicted(tpos', PlaybackOf(Current.session), now)
              /\ sessions' = sessions
       /\ (tpc = "report" /\ tpc' = "update") =>
              /\ reports' = Append(reports,
                    [sid |-> Current.id, user_id |-> Current.session.user_id,
                     video_id |-> PlaybackOf(Current.session).video_id,
                     play_session_id |-> PlaybackOf(Current.session).play_session_id,
                     position |-> tpos, is_paused |-> FALSE,
                     started_at |-> PlaybackOf(Current.session).started_at])
              /\ tnew' = Some(SessionState(Current.id,
                    [Current.session EXCEPT !.last_known_playback =
                        Some([PlaybackOf(Current.session) EXCEPT
                                 !.position_estimate = tpos, !.last_update = now])]))
              /\ sessions' = sessions
       /\ (tpc = "update" /\ tpc' = "loop") =>
              /\ sessions' = [sessions EXCEPT ![Current.id] = Some(tnew.val.session)]
              /\ PlaybackOf(sessions'[Current.id].val).position_estimate
                    = reports[Len(reports)].position]_vars

\* C12 witness: position 590 at speed 0.5, 5 elapsed: 593 (2.5 rounded away
\* from zero) has been reported and persisted with last_update 5.
C12_Witness ==
    \E s \in Sids :
        /\ tpc = "loop"
        /\ Len(reports) > 0
        /\ reports[Len(reports)].sid = s
        /\ reports[Len(reports)].position = 593 * TicksPerMs
        /\ sessions[s] = Some(User(s, Some(Playback(1, 1, 600 * TicksPerMs, 593 * TicksPerMs,
                                                     Speed(1, 2), 0, 5, FALSE))))

\* C13: the background loop never stops: whatever the routine returned, also
\* the error of a failed read, report or write, the interval fires again and
\* the routine runs again.
C13_LoopNeverStops ==
    /\ [](tpc \in {"sleep", "select", "loop", "stop", "report", "update"})
    /\ []<>(tpc = "select")
    /\ \A e \in {"query", "playback_progress", "update_session"} :
          (tpc = "sleep" /\ tres = Some(Err(e))) ~> (tpc = "select" /\ tres = Some(Err(e)))

\* C13 witness: the routine runs again after a run that returned the error
\* of a failed report.
C13_Witness ==
    /\ tpc = "loop"
    /\ tres = Some(Err("playback_progress"))
    /\ Len(tsnap) > 0

\* ------------------------------------------------- claims: client events

\* The record of session s holds what a handled Pause event wrote: paused,
\* at the position the event carried.
ResyncedByPause(s) ==
    /\ sessions[s].some
    /\ sessions[s].val.kind = "User"
    /\ sessions[s].val.last_known_playback.some
    /\ PlaybackOf(sessions[s].val).is_paused
    /\ \E ev \in EventInputs :
          /\ ev.event = "Pause"
          /\ PlaybackOf(sessions[s].val).position_estimate = ev.time * TicksPerMs

\* C14: once a Pause event with time T has been handled, the persisted
\* playback is paused at position T, and it stays so whatever the background
\* task does, also when a tick that read the session before the Pause was
\* written writes after it.
C14_PauseWinsOverTick ==
    [][\A s \in Sids :
          (ResyncedByPause(s) /\ UNCHANGED eventVars) => ResyncedByPause(s)']_vars

\* ------------------------------------------------ claims: session records

\* The record of session s is a Session::User.
Authenticated(tbl, s) == tbl[s].some /\ tbl[s].val.kind = "User"

\* The record of session s is a Session::QuickConnect.
Pending(tbl, s) == tbl[s].some /\ tbl[s].val.kind = "QuickConnect"

\* C16: once a session is authenticated, its password, user id and username
\* never change, also when two GET / requests with the same pending session
\* poll concurrently after the approval.
C16_CredentialsAreStable ==
    [][\A s \in Sids :
          Authenticated(sessions, s) =>
              /\ Authenticated(sessions', s)
              /\ sessions'[s].val.jellyvr_password = sessions[s].val.jellyvr_password
              /\ sessions'[s].val.user_id = sessions[s].val.user_id
              /\ sessions'[s].val.username = sessions[s].val.username]_vars

\* Handler r gets the answer of its poll in this step.
PollStep(r) == hpc[r] = "poll" /\ hpc'[r] # "poll"

\* C17: a pending session polled while its code is not approved is returned
\* as it was read (same id, secret and code), as an Ok result, and no record
\* is written.
C17_UnapprovedPollReturnsPending ==
    [][\A r \in Roots :
          (PollStep(r) /\ quick[hstate[r].val.session.secret] # "approved"
                       /\ hret'[r] # Some(Err("poll"))) =>
              /\ hret'[r] = Some(Ok(hstate[r].val))
              /\ hret'[r].val.val.session
                    = QuickConnect(hstate[r].val.session.secret)
              /\ sessions' = sessions]_vars

\* C17 witness: the request with the cookie of session s has returned the
\* pending session, whose code still waits for approval.
C17_Witness ==
    \E r \in Roots, s \in Sids :
        /\ hcookie[r] = Some(s)
        /\ hret[r] = Some(Ok(SessionState(s, QuickConnect(s))))
        /\ sessions[s] = Some(QuickConnect(s))
        /\ quick[s] = "waiting"

\* Handler r returns an error from the poll, the handshake or the write.
PromotionFails(r) ==
    /\ hpc[r] \in {"poll", "auth", "caps", "update"}
    /\ hret'[r].some
    /\ ~hret'[r].val.ok

\* C18: when the poll, the handshake (its capabilities call included) or the
\* write fails, the failing call has written nothing: every record is as it
\* was, the pending session is still pending with its secret and code.
C18_NoPartialPromotion ==
    [][\A r \in Roots :
          PromotionFails(r) =>
              /\ sessions' = sessions
              /\ Pending(sessions, hstate[r].val.id) =>
                    sessions'[hstate[r].val.id] = Some(hstate[r].val.session)]_vars

\* C18 witness: the handshake of an approved code has failed and the session
\* is still pending.
C18_Witness ==
    \E r \in Roots, s \in Sids :
        /\ hcookie[r] = Some(s)
        /\ hret[r] = Some(Err("auth"))
        /\ quick[s] = "approved"
        /\ sessions[s] = Some(QuickConnect(s))

\* C19: when the poll or the handshake fails upstream, handle_session
\* returns the pending state it read, as it does when the code is not
\* approved, and no error.
C19_UpstreamFailureReturnsPending ==
    [][\A r \in Roots :
          (hpc[r] \in {"poll", "auth", "caps"} /\ hpc'[r] = "done") =>
              hret'[r] = Some(Ok(hstate[r].val))]_vars

IsLowercaseLetter(c) ==
    c \in {"a", "b", "c", "d", "e", "f", "g", "h", "i", "j", "k", "l", "m",
           "n", "o", "p", "q", "r", "s", "t", "u", "v", "w", "x", "y", "z"}

\* C20: the password of every authenticated session is 6 characters long
\* and made of the letters a..z only.
C20_PasswordIsSixLowercase ==
    \A s \in Sids :
        Authenticated(sessions, s) =>
            /\ Len(sessions[s].val.jellyvr_password) = 6
            /\ \A i \in 1..Len(sessions[s].val.jellyvr_password) :
                  IsLowercaseLetter(sessions[s].val.jellyvr_password[i])

\* C20 witness: a request has promoted the session paired by user 1 and the
\* password generated for it is "zzamna".
C20_Witness ==
    \E r \in Roots, s \in Sids :
        /\ hpc[r] = "done"
        /\ hret[r].val.ok
        /\ Authenticated(sessions, s)
        /\ hret[r].val.val.session = sessions[s].val
        /\ sessions[s].val.user_id = 1
        /\ sessions[s].val.jellyvr_password = <<"z", "z", "a", "m", "n", "a">>

\* C15: a session record that is a Session::User stays one: no step of the
\* bootstrap page, the catalog, a video request, an event or the background
\* task, in any interleaving, makes it a Session::QuickConnect again.
C15_AuthenticatedIsAbsorbing ==
    [][\A s \in Sids :
          Authenticated(sessions, s) => Authenticated(sessions', s)]_vars

\* C15 witness: the pairing of session 1 was approved and a GET / promoted
\* it next to the session of another user; a video request with its
\* credentials then stored a playback in it, and it is a Session::User.
C15_Witness ==
    /\ hpc[1] = "done"
    /\ hcookie[1] = Some(1)
    /\ hret[1].val.ok
    /\ vpc = "done"
    /\ vret.val.ok
    /\ Authenticated(sessions, 1)
    /\ Authenticated(sessions, 2)
    /\ sessions[1].val.user_id = 1
    /\ sessions[1].val.last_known_playback.some
    /\ sessions[1].val.last_known_playback.val.play_session_id = PlaySessionId

\* --------------------------------------------- claims: requests and events

\* Session s is authenticated with the username and password of cred.
MatchesCredentials(tbl, s, cred) ==
    /\ Authenticated(tbl, s)
    /\ tbl[s].val.username = cred.username
    /\ tbl[s].val.jellyvr_password = cred.password

\* The extractor of the video request gets the answer of its query.
ExtractStep == vpc = "extract" /\ vpc' # "extract"

\* C21: the lookup by credentials finds a session exactly when some
\* authenticated session has that username and that password; the session it
\* returns is such a session, as persisted, and never a pending one;
\* without a match the request is answered as not found.
C21_LookupByCredentials ==
    /\ [](\A cred \in CredentialInputs :
            LET res == get_session_from_heresphere_request(sessions, cred)
            IN /\ res.ok <=> \E s \in Sids : MatchesCredentials(sessions, s, cred)
               /\ res.ok => /\ MatchesCredentials(sessions, res.val.id, cred)
                            /\ res.val.session = sessions[res.val.id].val
                            /\ res.val.session.kind # "QuickConnect"
               /\ ~res.ok => res = Err("No session found for request"))
    /\ [][ExtractStep =>
            IF vpc' = "get_video"
            THEN /\ MatchesCredentials(sessions, vst'.val.session_state.id, vreq.val)
                 /\ vst'.val.session_state.session
                        = sessions[vst'.val.session_state.id].val
            ELSE vret' = Some(Err("access -1"))]_vars
    /\ [][(ExtractStep /\ \A s \in Sids : ~MatchesCredentials(sessions, s, vreq.val))
            => vpc' = "done"]_vars

\* C21 witness: the extractor has found the session of the credentials in a
\* table that also holds a pending session.
C21_Witness ==
    /\ vpc = "get_video"
    /\ MatchesCredentials(sessions, vst.val.session_state.id, vreq.val)
    /\ \E s \in Sids : Pending(sessions, s)

\* Handler r gets the answer of its select in this step.
HsSelectStep(r) == hpc[r] = "select" /\ hpc'[r] # "select"

\* Handler r gets the answer of its create in this step.
HsCreateStep(r) == hpc[r] = "create" /\ hpc'[r] # "create"

\* C22: a GET / whose cookie names a persisted session loads that session
\* and creates none; a GET / without a cookie, or whose cookie names no
\* persisted session, creates exactly one pending session, persists it, and
\* the cookie of its response names it.
C22_ResolveLoadsOrCreatesOne ==
    /\ [][\A r \in Roots :
             (HsSelectStep(r) /\ hret'[r] # Some(Err("select"))) =>
                 LET c == hcookie[r].val
                 IN /\ sessions' = sessions
                    /\ sessions[c].some =>
                          \/ hstate'[r] = Some(SessionState(c, sessions[c].val))
                          \/ hret'[r] = Some(Ok(SessionState(c, sessions[c].val)))
                    /\ ~sessions[c].some => hpc'[r] = "initiate"]_vars
    /\ [][\A r \in Roots :
             (hpc[r] = "idle" /\ hpc'[r] # "idle") =>
                 hpc'[r] = IF hcookie'[r].some THEN "select" ELSE "initiate"]_vars
    /\ [][\A r \in Roots :
             (HsCreateStep(r) /\ hret'[r] # Some(Err("create"))) =>
                 \E id \in Sids :
                    /\ ~sessions[id].some
                    /\ sessions' = [sessions EXCEPT ![id] = sessions'[id]]
                    /\ Pending(sessions', id)
                    /\ hstate'[r] = Some(SessionState(id, sessions'[id].val))]_vars
    /\ [][\A r \in Roots :
             (hpc[r] = "initiate" /\ hpc'[r] # "initiate") => sessions' = sessions]_vars
    /\ [][\A r \in Roots :
             hpc[r] \in {"poll", "auth", "caps", "update", "done"} =>
                 hpc'[r] \notin {"select", "initiate", "create"}]_vars
    /\ [][\A r \in Roots :
             (PollStep(r) /\ hret'[r].some /\ hret'[r].val.ok) =>
                 ResponseCookie(hret'[r].val.val) = hstate[r].val.id]_vars

\* C22 witness: a request whose cookie names no persisted session has
\* created a pending session, and its response names that session.
C22_Witness ==
    \E r \in Roots, id \in Sids, q \in Secrets :
        /\ id # q
        /\ hcookie[r].some
        /\ hpc[r] = "done"
        /\ hret[r] = Some(Ok(SessionState(id, QuickConnect(q))))
        /\ ResponseCookie(hret[r].val.val) = id
        /\ sessions[id] = Some(QuickConnect(q))

\* The event handler gets the answer of its update_session in this step.
EventWrites == epc = "update" /\ epc' # "update" /\ eret' = Some(Ok("()"))

\* C23: a Play event stores is_paused = false and a Pause event is_paused =
\* true; both store the speed and the time of the event and the time the
\* handler read the clock, and leave the play session id, the video id, the
\* duration, started_at and the user's id, token, username and password as
\* they were; no other record changes.
C23_PlayPauseEffect ==
    /\ [][(epc = "select" /\ epc' = "update") =>
             PlaybackOf(enew'.val.session).last_update = now]_vars
    /\ [][EventWrites =>
             LET s == ereq.val.sid
                 ev == ereq.val.event
                 old == sessions[s].val
                 new == sessions'[s].val
             IN /\ ev.event \in {"Play", "Pause"}
                /\ sessions' = [sessions EXCEPT ![s] = sessions'[s]]
                /\ Authenticated(sessions', s)
                /\ PlaybackOf(new).is_paused = (ev.event = "Pause")
                /\ PlaybackOf(new).speed = ev.speed
                /\ PlaybackOf(new).position_estimate = ev.time * TicksPerMs
                /\ PlaybackOf(new).last_update = PlaybackOf(enew.val.session).last_update
                /\ PlaybackOf(new).last_update <= now
                /\ PlaybackOf(new).play_session_id = PlaybackOf(old).play_session_id
                /\ PlaybackOf(new).video_id = PlaybackOf(old).video_id
                /\ PlaybackOf(new).duration = PlaybackOf(old).duration
                /\ PlaybackOf(new).started_at = PlaybackOf(old).started_at
                /\ new.user_id = old.user_id
                /\ new.token = old.token
                /\ new.username = old.username
                /\ new.jellyvr_password = old.jellyvr_password]_vars

\* C23 witness: a Play event at 80 ms with speed -1.0, handled at time 5,
\* is stored in session 1.
C23_Witness ==
    /\ epc = "done"
    /\ eret = Some(Ok("()"))
    /\ Authenticated(sessions, 1)
    /\ sessions[1].val.last_known_playback
          = Some(Playback(1, 1, 600 * TicksPerMs, 80 * TicksPerMs, Speed(-1, 1), 0, 5, FALSE))

\* C24: an Open or a Close event writes nothing: while the handler serves
\* one, every record stays as it is (a playing playback stays playing), and
\* the handler answers without calling update_session.
C24_OpenCloseChangeNothing ==
    [][(epc = "select" /\ ereq.val.event.event \in {"Open", "Close"}) =>
          /\ sessions' = sessions
          /\ epc' \in {"select", "done"}
          /\ (epc' = "done" /\ Authenticated(sessions, ereq.val.sid)) =>
                eret' \in {Some(Ok("()")), Some(Err("query"))}]_vars

\* C24 witness: both sessions are users with a playing playback, the one
\* event of the behaviour was answered with Ok, and both records are as they
\* were: the event was an Open or a Close.
C24_Witness ==
    /\ epc = "done"
    /\ nEv = 1
    /\ eret = Some(Ok("()"))
    /\ \A s \in Sids :
          sessions[s] = Some(User(s, Some(Playback(1, 1, 600 * TicksPerMs, 590 * TicksPerMs,
                                                    Speed(1, 1), 0, 0, FALSE))))

\* Session s plays, with a known duration and a positive speed, and the
\* position predicted for the present time is past the duration.
Overdue(s) ==
    /\ Authenticated(sessions, s)
    /\ sessions[s].val.last_known_playback.some
    /\ LET pb == PlaybackOf(sessions[s].val)
       IN /\ ~pb.is_paused
          /\ pb.duration > 0
          /\ pb.speed.num > 0
          /\ PredictedPastDuration(pb, now)

\* Session s is persisted as paused.
PersistedPaused(s) ==
    /\ Authenticated(sessions, s)
    /\ sessions[s].val.last_known_playback.some
    /\ PlaybackOf(sessions[s].val).is_paused

\* C25: with the interval firing again and again and no event from the
\* client, a playing playback of known duration and positive speed whose
\* predicted position has passed the duration is persisted as paused at some
\* point, also when the progress reports keep failing.
C25_OverrunStopsEventually ==
    \A s \in Sids : (tpc = "sleep" /\ Overdue(s)) ~> PersistedPaused(s)

\* C26: a catalog or video request whose credentials match no authenticated
\* session is answered with the "access": -1 payload and not with the
\* server's error; the library is not built for it and no record of the
\* sessions, the index or the videos changes.
C26_UnknownCredentialsGetAccessMinusOne ==
    /\ [][(ExtractStep /\ \A s \in Sids : ~MatchesCredentials(sessions, s, vreq.val)) =>
             /\ vpc' = "done"
             /\ vret' = Some(NotLoggedIn)
             /\ UNCHANGED <<sessions, index, videos>>]_vars
    /\ [][(pc[1] = "idle" /\ pc'[1] # "idle") =>
             /\ UNCHANGED <<sessions, index, videos>>
             /\ IF \E s \in Sids, cred \in SessCredentials :
                       /\ MatchesCredentials(sessions, s, cred)
                       /\ sessions[s].val.user_id = usr'[1]
                THEN pc'[1] \in {"select", "done"}
                ELSE pc'[1] = "done"
             /\ pc'[1] = "done" => ret'[1] = Some(NotLoggedIn)
             /\ pc'[1] = "select" =>
                   \E s \in Sids, cred \in SessCredentials :
                       /\ MatchesCredentials(sessions, s, cred)
                       /\ sessions[s].val.user_id = usr'[1]]_vars

\* C26 witness: a catalog request and a video request were both answered
\* with the "access": -1 payload.
C26_Witness ==
    /\ pc[1] = "done"
    /\ ret[1] = Some(NotLoggedIn)
    /\ vpc = "done"
    /\ vret = Some(NotLoggedIn)
    /\ \E s \in Sids : Pending(sessions, s)

\* C27: a video request for an item that has no record for the user is
\* answered as not found, with a status that differs from the one an
\* upstream failure is answered with.
C27_ItemNotFoundIsDistinguishable ==
    [][(vpc = "get_video" /\ vret' = Some(Err("No video found"))) =>
          /\ IntoResponse(vret'.val).status # "INTERNAL_SERVER_ERROR"
          /\ IntoResponse(vret'.val).status
                # IntoResponse(Err("playback_info")).status]_vars

\* The video handler gets the answer of its update_session in this step.
VideoWrites == vpc = "update" /\ vpc' = "playback_start"

\* C28: a video request that asks for a media source replaces the playback
\* of its session by one that tracks the requested item and the play session
\* id PlaybackInfo answered with, at position 0, and changes nothing else; a
\* video request that does not ask for one writes nothing.
C28_VideoRequestStartsTracking ==
    /\ [][VideoWrites =>
             LET s == vst.val.session_state.id
                 pb == PlaybackOf(sessions'[s].val)
             IN /\ vreq.val.needs_media_source = Some(TRUE)
                /\ sessions' = [sessions EXCEPT ![s] = sessions'[s]]
                /\ Authenticated(sessions', s)
                /\ sessions'[s].val.last_known_playback.some
                /\ pb.video_id = vreq.val.vid
                /\ pb.play_session_id = PlaySessionId
                /\ pb.position_estimate = 0
                /\ sessions'[s].val.user_id = sessions[s].val.user_id
                /\ sessions'[s].val.jellyvr_password = sessions[s].val.jellyvr_password]_vars
    /\ [][(vpc \notin {"idle", "done", "update"}
           \/ (vpc = "update" /\ vpc' = "done")) => sessions' = sessions]_vars
    /\ [](vpc \in {"playback_info", "update", "playback_start"} =>
             vreq.val.needs_media_source = Some(TRUE))

\* C28 witness: a video request for item 1 that asked for a media source
\* was answered, and session 1 tracks item 1 with the new play session id at
\* position 0.
C28_Witness ==
    /\ vpc = "done"
    /\ vret.val.ok
    /\ vret.val.val.event_server = Some(<<1, 1>>)
    /\ Authenticated(sessions, 1)
    /\ sessions[1].val.last_known_playback.some
    /\ PlaybackOf(sessions[1].val).play_session_id = PlaySessionId
    /\ PlaybackOf(sessions[1].val).video_id = 1
    /\ PlaybackOf(sessions[1].val).position_estimate = 0

\* Session s is authenticated and has a playback.
HasPlayback(tbl, s) == Authenticated(tbl, s) /\ tbl[s].val.last_known_playback.some

\* C29: an authenticated session that has a playback keeps having one: a
\* step of a GET /, an event, a video request or the background task may
\* replace it by another value, never remove it.
C29_PlaybackNeverDeleted ==
    [][\A s \in Sids : HasPlayback(sessions, s) => HasPlayback(sessions', s)]_vars

\* The persisted record of session s is a user's, with a playback that is
\* not paused.
PlayingRecord(s) ==
    /\ sessions[s].some
    /\ sessions[s].val.kind = "User"
    /\ sessions[s].val.last_known_playback.some
    /\ ~sessions[s].val.last_known_playback.val.is_paused

\* C30: the background task leaves every session alone that is pending,
\* has no playback or has a paused playback: it writes nothing to its record
\* and makes no playback_progress call for it.
C30_TickSkipsUntracked ==
    [][\A s \in Sids :
          ~PlayingRecord(s) =>
              /\ sessions'[s] = sessions[s]
              /\ (reports' # reports /\ reports' # <<>>) =>
                    reports'[Len(reports')].sid # s]_vars

\* C30 witness: the routine is through its loop over a paused session 1
\* and a playing session 2: it reported for session 2 only, and session 1 is
\* as it was read.
C30_Witness ==
    /\ tpc = "loop"
    /\ Len(tsnap) = 2
    /\ ti > Len(tsnap)
    /\ tsnap[1].session.kind = "User"
    /\ tsnap[1].session.last_known_playback.some
    /\ tsnap[1].session.last_known_playback.val.is_paused
    /\ sessions[1] = Some(tsnap[1].session)
    /\ Len(reports) = 1
    /\ reports[1].sid = 2

\* ------------------------------------------------ claims: frames and races

\* Handler h gets the answer of one of the two db.query calls of prime_data
\* in this step.
PrimeWrites(h) == pc[h] \in {"index", "videos"} /\ pc'[h] # pc[h]

\* C31: a rebuild for user U changes only U's data: while prime_data(U)
\* writes, the CacheEntry and every VideoRecord of every other user are
\* unchanged, whichever of the two user ids sorts first.
C31_RebuildTouchesOnlyItsUser ==
    [][\A h \in Handlers :
          PrimeWrites(h) =>
              \A v \in Users \ {usr[h]} :
                  /\ index'[v] = index[v]
                  /\ \A i \in Items : videos'[<<v, i>>] = videos[<<v, i>>]]_vars

\* Bootstrap handler r gets the answer of the db.update of the promotion in
\* this step, and the update succeeded.
PromotionWrites(r) ==
    /\ hpc[r] = "update"
    /\ hpc'[r] = "done"
    /\ hret'[r].some
    /\ hret'[r].val.ok

\* Two values of a record of table `session` are of the same variant, with the
\* same credentials and the same playback.
KeepsSession(old, new) ==
    /\ old.some = new.some
    /\ old.some =>
          /\ new.val.kind = old.val.kind
          /\ old.val.kind = "QuickConnect" =>
                new.val.secret = old.val.secret /\ new.val.code = old.val.code
          /\ old.val.kind = "User" =>
                /\ new.val.user_id = old.val.user_id
                /\ new.val.username = old.val.username
                /\ new.val.jellyvr_password = old.val.jellyvr_password
                /\ new.val.last_known_playback = old.val.last_known_playback

\* C32: the promotion of a pending session S changes the record of S only,
\* and the session it returns to the caller is S: every other record of the
\* table keeps its variant, its credentials and its playback.
C32_PromotionTouchesOnlyItsSession ==
    [][\A r \in Roots :
          PromotionWrites(r) =>
              /\ hret'[r].val.val.id = hstate[r].val.id
              /\ \A t \in Sids \ {hstate[r].val.id} :
                    KeepsSession(sessions[t], sessions'[t])]_vars

\* C33: a write of the background task changes only the position, the time
\* of the last update and the pause flag of a session: compared with the
\* record persisted just before the write, the video id, the play session id,
\* the duration, started_at and the speed are the same, also when an event
\* or a video request wrote the record after the task read it.
C33_TickKeepsTheOtherFields ==
    [][\A s \in Sids :
          (TickWrites(s) /\ HasPlayback(sessions, s)) =>
              LET old == PlaybackOf(sessions[s].val)
                  new == PlaybackOf(sessions'[s].val)
              IN /\ new.video_id = old.video_id
                 /\ new.play_session_id = old.play_session_id
                 /\ new.duration = old.duration
                 /\ new.started_at = old.started_at
                 /\ new.speed = old.speed]_vars

\* ------------------------------------------------ claims: failures

\* The upstream fetch of the items fails in handler h in this step.
ItemsFails(h) == pc[h] = "items" /\ pc'[h] = "done"

\* C34: when the upstream fetch of the items fails during a build for user
\* U, the call returns an error and nothing is written: neither the select
\* that precedes the fetch nor the failing fetch deletes or restamps the
\* persisted CacheEntry or a VideoRecord, so what was persisted for U before
\* the call is still persisted when it returns.
C34_FailedFetchLeavesCache ==
    [][\A h \in Handlers :
          /\ ItemsFails(h) =>
                /\ ret'[h].some
                /\ ~ret'[h].val.ok
                /\ index' = index
                /\ videos' = videos
          /\ (pc[h] \in {"select", "items"} /\ pc'[h] # pc[h]) =>
                /\ index' = index
                /\ videos' = videos]_vars

\* C34 witness: the entry built at t=0 was found too old at t=121s, the
\* fetch of the rebuild failed, and the entry and the video record of t=0
\* are still persisted.
C34_Witness ==
    \E h \in Handlers :
        /\ pc[h] = "done"
        /\ arm[h] = "TooOld"
        /\ ret[h] = Some(Err("items"))
        /\ now = 121000
        /\ index[usr[h]].some
        /\ index[usr[h]].val.last_updated = 0
        /\ \E i \in Items :
              /\ videos[<<usr[h], i>>].some
              /\ videos[<<usr[h], i>>].val.last_updated = 0

\* The handler did not produce a response of its own: it panicked, and its
\* task ended by unwinding.
UnhandledFailure(res) == ~res.ok /\ res.err = "panic: unwrap on None"

\* C35: a Play or Pause event for an authenticated session that has no
\* playback is answered by the handler itself (with Ok or with an AppError),
\* never ends in a panic, and leaves the record as it was, with no playback
\* created.
C35_EventWithoutPlaybackIsHandled ==
    [][(/\ epc = "select"
        /\ ereq.val.event.event \in {"Play", "Pause"}
        /\ Authenticated(sessions, ereq.val.sid)
        /\ ~HasPlayback(sessions, ereq.val.sid)
        /\ epc' # "select") =>
            /\ epc' = "done"
            /\ ~UnhandledFailure(eret'.val)
            /\ sessions' = sessions]_vars

\* ------------------------------------------------ claims: events and items

\* C36: an event changes the playback of its session only when the item id
\* of its path is the item the playback tracks: an event for another item
\* leaves every record as it was.
C36_EventForTrackedItemOnly ==
    [][(/\ epc \in {"select", "update"}
        /\ HasPlayback(sessions, ereq.val.sid)
        /\ PlaybackOf(sessions[ereq.val.sid].val).video_id # ereq.val.vid) =>
            sessions' = sessions]_vars

\* ------------------------------------------------ claims: positions

\* C37 as stated: for a playback with a duration above zero, every position
\* the background task writes is at most the duration, and when it stops a
\* playback the position it writes is the one it read (not the predicted
\* one, not the duration).
C37_TickNeverWritesPastDuration ==
    [][\A s \in Sids :
          TickWrites(s) =>
              LET new == PlaybackOf(sessions'[s].val)
              IN /\ new.duration > 0 => new.position_estimate <= new.duration
                 /\ tpc = "stop" =>
                       new.position_estimate = PlaybackOf(Current.session).position_estimate]_vars

\* C37 amended: for a playback with a duration above zero, every position the
\* background task writes after a progress report is at most the duration;
\* when it stops a playback it writes the position it read, paused, and that
\* position is past the duration exactly when the record it read already
\* was, as after an event whose time is past the end.
C37_ReportedPositionWithinDuration ==
    [][\A s \in Sids :
          TickWrites(s) =>
              LET new == PlaybackOf(sessions'[s].val)
                  read == PlaybackOf(Current.session)
              IN /\ tpc = "update" =>
                       (new.duration > 0 => new.position_estimate <= new.duration)
                 /\ tpc = "stop" =>
                       /\ new.is_paused
                       /\ new.duration = read.duration
                       /\ new.position_estimate = read.position_estimate
                       /\ (new.position_estimate > new.duration)
                             <=> (read.position_estimate > read.duration)]_vars

\* C37 witness: a Play event at 610 ms of an item of 600 ms was stored, and
\* the background task has stopped the playback where it was: paused, at
\* 610 ms.
C37_Witness ==
    \E s \in Sids :
        /\ tpc = "loop"
        /\ ti > 1
        /\ tsnap[ti - 1].id = s
        /\ HasPlayback(sessions, s)
        /\ PlaybackOf(sessions[s].val).is_paused
        /\ PlaybackOf(sessions[s].val).duration = 600 * TicksPerMs
        /\ PlaybackOf(sessions[s].val).position_estimate = 610 * TicksPerMs

\* The persisted playback of session s is not paused and has no duration
\* above zero.
PlayingWithoutDuration(s) ==
    /\ PlayingRecord(s)
    /\ PlaybackOf(sessions[s].val).duration <= 0

\* C38: a playback that is not paused and whose duration is 0 or negative is
\* never paused by the background task: every tick that reaches it takes the
\* report path with the predicted position, which with a speed above zero is
\* at least the stored one, and a write of the task stores that position
\* with the pause flag still false, however far the position has grown.
C38_NoDurationNeverStops ==
    /\ [][\A s \in Sids : PlayingWithoutDuration(s) => PlayingWithoutDuration(s)']_vars
    /\ [][(LoopStep /\ PlaybackOf(Current.session).duration <= 0) =>
             /\ tpc' = "report"
             /\ IsPredicted(tpos', PlaybackOf(Current.session), now)
             /\ PlaybackOf(Current.session).speed.num > 0 =>
                   tpos' >= PlaybackOf(Current.session).position_estimate]_vars
    /\ [][\A s \in Sids :
             (TickWrites(s) /\ PlaybackOf(Current.session).duration <= 0) =>
                 /\ tpc = "update"
                 /\ ~PlaybackOf(sessions'[s].val).is_paused
                 /\ PlaybackOf(sessions'[s].val).position_estimate = tpos
                 /\ PlaybackOf(Current.session).speed.num > 0 =>
                       PlaybackOf(sessions'[s].val).position_estimate
                          >= PlaybackOf(sessions[s].val).position_estimate]_vars

\* C38 witness: 35 ms after the start, the playback of unknown duration that
\* started at 590 ms is persisted at 625 ms, not paused, and the one of
\* known duration (600 ms) next to it is paused.
C38_Witness ==
    /\ now = 35
    /\ PlayingWithoutDuration(1)
    /\ PlaybackOf(sessions[1].val).position_estimate = 625 * TicksPerMs
    /\ PlaybackOf(sessions[1].val).last_update = 35
    /\ PersistedPaused(2)

\* ------------------------------------------------ claims: start of playback

\* A session record that plays (is not paused) with the play session id the
\* video request got from PlaybackInfo.
PlayingStarted(sess) ==
    /\ sess.kind = "User"
    /\ sess.last_known_playback.some
    /\ sess.last_known_playback.val.play_session_id = PlaySessionId
    /\ ~sess.last_known_playback.val.is_paused

\* The started play session is playing somewhere: in a persisted record, in
\* what the background task read or is about to write, or in a progress
\* report the task has issued.
StartedIsPlaying ==
    \/ \E s \in Sids : sessions[s].some /\ PlayingStarted(sessions[s].val)
    \/ \E k \in 1..Len(tsnap) : PlayingStarted(tsnap[k].session)
    \/ tnew.some /\ PlayingStarted(tnew.val.session)
    \/ \E k \in 1..Len(reports) : reports[k].play_session_id = PlaySessionId

\* C39: the playback a video request creates starts paused, and no progress
\* report carries its play session id before a Play event has been handled
\* for the session after the start: the first step that makes the started
\* play session play, anywhere a report could come from, is the write of a
\* Play event, and that event read the record when it already held the
\* started play session.
C39_NoReportBeforePlay ==
    /\ [][VideoWrites =>
             /\ PlaybackOf(sessions'[vst.val.session_state.id].val).is_paused
             /\ PlaybackOf(sessions'[vst.val.session_state.id].val).play_session_id
                   = PlaySessionId]_vars
    /\ [][(~StartedIsPlaying /\ StartedIsPlaying') =>
             /\ epc = "update"
             /\ ereq.val.event.event = "Play"
             /\ PlayingStarted(enew.val.session)
             /\ sessions' = [sessions EXCEPT ![ereq.val.sid] = Some(enew.val.session)]
             /\ UNCHANGED <<tsnap, tnew, reports>>]_vars
    /\ [][(epc = "select" /\ epc' = "update"
           /\ PlaybackOf(enew'.val.session).play_session_id = PlaySessionId) =>
             /\ HasPlayback(sessions, ereq.val.sid)
             /\ PlaybackOf(sessions[ereq.val.sid].val).play_session_id = PlaySessionId]_vars
    /\ [][(reports' # reports /\ reports' # <<>>) =>
             ~reports'[Len(reports')].is_paused]_vars

\* C39 witness: a video request started play session 2 in session 1 at time
\* 30, a Play event at 5 ms with speed 0.5 was handled, and the background
\* task has issued a report that carries play session 2.
C39_Witness ==
    /\ vpc = "done"
    /\ epc = "done"
    /\ Len(reports) > 0
    /\ reports[Len(reports)].sid = 1
    /\ reports[Len(reports)].play_session_id = PlaySessionId
    /\ reports[Len(reports)].started_at = 30

====
